---- MODULE Spec2Model ----
(***************************************************************************)
(* Checked right shift of circuit integers (Integer::shr_checked), its     *)
(* cost prediction (Metrics / OutputMode) and the derived scalar           *)
(* comparator (Scalar::is_greater_than), each driven by the unit-test      *)
(* harness of its source file; the synthesis of the inner circuit          *)
(* (InnerCircuit::generate_constraints) over sampled assignments; and the  *)
(* console Data wrapper (From and Deref).                                  *)
(*                                                                         *)
(* Native integers are bit vectors, least significant bit first, because   *)
(* the 64- and 128-bit types do not fit a model-checker integer.           *)
(***************************************************************************)
EXTENDS Integers, Sequences, FiniteSets, TLC

VARIABLES
    pc,         \* position of the test harness
    ty,         \* the type parameters I and M of the instantiation
    mode_a,     \* Mode of the left operand
    mode_b,     \* Mode of the right operand
    first,      \* native left operand
    second,     \* native right operand
    a,          \* circuit left operand
    b,          \* circuit right operand
    built,      \* how the right operand was built: "new" or "from_bits"
    ctx,        \* the Circuit context: allocation and constraint totals
    scope,      \* the Context totals when the scope was entered
    candidate,  \* the value returned by the operation, or NoValue
    halted,     \* the operation called E::halt
    form,       \* the entry point used: "shr_checked" or the operand combination of >> or >>=
    message,    \* the message E::halt was called with, or NoMessage
    predicted,  \* the results of the Metrics / OutputMode calls made so far
    inner_public,       \* InnerPublicVariables of the inner circuit
    inner_private,      \* InnerPrivateVariables of the inner circuit (the witness)
    constraint_system,  \* the constraints enforced so far, each with whether the assignment satisfies it
    locals,             \* the local vectors of InnerCircuit::generate_constraints
    entries,            \* the (Identifier, Entry) pairs given to Data::from
    data,               \* the Data value, or NoValue
    target              \* the slice the Data value dereferences to, or NoValue

inner == <<inner_public, inner_private, constraint_system, locals>>

console == <<entries, data, target>>

vars == <<pc, ty, mode_a, mode_b, first, second, a, b, built, ctx, scope, candidate, halted, form,
          message, predicted, inner, console>>

\* The absent value of a string-valued variable.
None == "None"

\* The absent Integer or native value (no Integer has zero bits).
NoValue == <<>>

\* The result of a Count prediction that halts.
NoCount == [halt |-> TRUE]

\* The argument of E::halt: the text of the message and the values that are
\* formatted into it.
HaltMessage(text, args) == [text |-> text, args |-> args]

\* No halt, no message.
NoMessage == HaltMessage("", <<>>)

\* ------------------------------------------------------------------ bounds

\* Shift amounts 0..MaxSmallShift are sampled besides the boundary amounts.
MaxSmallShift == 2

\* Scalar field elements are sampled from 0..MaxScalar.
MaxScalar == 5

\* ------------------------------------------------------------------- modes

Modes == {"Constant", "Public", "Private"}

\* The widths an IntegerType may have, in the order of the width lookup.
IntegerWidths == <<8, 16, 32, 64, 128>>

\* The widths a Magnitude may have (u8, u16, u32).
MagnitudeWidths == {8, 16, 32}

IntegerTypes ==
    [bits : {IntegerWidths[i] : i \in 1..Len(IntegerWidths)}, signed : BOOLEAN, mbits : MagnitudeWidths]

\* ------------------------------------------------------- native bit vectors

\* 2 to the power n.
Pow2(n) == 2 ^ n

\* u32::trailing_zeros of a power of two.
RECURSIVE trailing_zeros(_)
trailing_zeros(n) == IF n % 2 = 1 THEN 0 ELSE 1 + trailing_zeros(n \div 2)

\* The width-w bit vector of the natural number n, for n < 256.
NatToBits(n, w) == [i \in 1..w |-> IF i > 8 THEN FALSE ELSE (n \div Pow2(i - 1)) % 2 = 1]

RECURSIVE BitsToNat(_, _)
\* The value of the low k bits of a bit vector.
BitsToNat(bits, k) == IF k = 0 THEN 0 ELSE (IF bits[k] THEN Pow2(k - 1) ELSE 0) + BitsToNat(bits, k - 1)

\* The two's complement (signed) or plain (unsigned) value of a bit vector
\* of at most 16 bits.
BitsToInt(bits, signed) ==
    LET w == Len(bits)
        u == BitsToNat(bits, w)
    IN  IF signed /\ bits[w] THEN u - Pow2(w) ELSE u

\* rhs.eject_value().to_u32().unwrap(): the shift amount as a number. Every
\* comparison is against a width of at most 128, so an amount with a bit set
\* at index 8 or above is reported as 256; the low eight bits are exact.
to_u32(bits) ==
    IF \E i \in 9..Len(bits) : bits[i] THEN 256 ELSE BitsToNat(bits, 8)

\* The shift amount modulo the width (the width divides 256).
AmountModWidth(bits, w) == BitsToNat(bits, 8) % w

\* The primitive shift right of the native type: arithmetic when signed,
\* logical when unsigned; n < width.
NativeShr(x, n, signed) ==
    LET w == Len(x)
    IN  [i \in 1..w |-> IF i + n <= w THEN x[i + n] ELSE (signed /\ x[w])]

\* first.checked_shr(n): None (NoValue) when n is not less than the width.
checked_shr(x, n, signed) ==
    IF n >= Len(x) THEN NoValue ELSE NativeShr(x, n, signed)

\* first.wrapping_shr(n): shifts by n modulo the width.
wrapping_shr(x, nbits, signed) ==
    NativeShr(x, AmountModWidth(nbits, Len(x)), signed)

\* -------------------------------------------------------------- the Context

\* Count: the four totals, and the operators whose cost is delegated to
\* (one entry <<operator, case>> per delegated invocation or prediction).
CountIs(c, pu, pr, cs) ==
    [constant |-> c, public |-> pu, private |-> pr, constraints |-> cs, delegated |-> <<>>]

CountAdd(x, y) ==
    [constant |-> x.constant + y.constant, public |-> x.public + y.public,
     private |-> x.private + y.private, constraints |-> x.constraints + y.constraints,
     delegated |-> x.delegated \o y.delegated]

\* Circuit::reset(): all totals cleared, the constraint system satisfied.
EmptyContext ==
    [constant |-> 0, public |-> 0, private |-> 0, constraints |-> 0,
     delegated |-> <<>>, satisfied |-> TRUE, log |-> <<>>, scopes |-> <<>>]

\* The Count accumulated in context c since the snapshot s.
Delta(c, s) ==
    [constant |-> c.constant - s.constant, public |-> c.public - s.public,
     private |-> c.private - s.private, constraints |-> c.constraints - s.constraints,
     delegated |-> SubSeq(c.delegated, Len(s.delegated) + 1, Len(c.delegated))]

\* allocate(mode, value): one variable of the given mode.
allocate(c, mode) ==
    CASE mode = "Constant" -> [c EXCEPT !.constant = @ + 1]
      [] mode = "Public"   -> [c EXCEPT !.public = @ + 1]
      [] mode = "Private"  -> [c EXCEPT !.private = @ + 1]

\* n calls of allocate(mode, value): n variables of the given mode.
allocate_n(c, mode, n) ==
    CASE mode = "Constant" -> [c EXCEPT !.constant = @ + n]
      [] mode = "Public"   -> [c EXCEPT !.public = @ + n]
      [] mode = "Private"  -> [c EXCEPT !.private = @ + n]

\* One constraint over at least one variable; holds is its value under the witness.
enforce(c, holds) ==
    [c EXCEPT !.constraints = @ + 1, !.satisfied = @ /\ holds]

Log(c, event) == [c EXCEPT !.log = Append(@, event)]

\* Circuit::scope(name, logic), on entry: the named scope is opened.
scope_enter(c, name) == [c EXCEPT !.scopes = Append(@, name)]

\* Circuit::scope(name, logic), on every exit of logic: the innermost scope
\* is closed.
scope_exit(c) == [c EXCEPT !.scopes = SubSeq(@, 1, Len(@) - 1)]

\* ------------------------------------------------------- Boolean, Integer

Boolean(mode, value) == [mode |-> mode, value |-> value]

\* Boolean::constant(value): no allocation.
BooleanConstant(value) == Boolean("Constant", value)

\* a | b on Booleans: a Constant operand folds away, otherwise one Private
\* variable and one constraint are added.
BitOr(c, x, y) ==
    IF x.mode = "Constant" THEN [ctx |-> c, out |-> IF x.value THEN x ELSE y]
    ELSE IF y.mode = "Constant" THEN [ctx |-> c, out |-> IF y.value THEN y ELSE x]
    ELSE [ctx |-> Log(enforce(allocate(c, "Private"), TRUE), "or"),
          out |-> Boolean("Private", x.value \/ y.value)]

\* Integer::new(mode, value): one Boolean of that mode per bit.
IntegerNew(c, mode, value) ==
    [ctx |-> allocate_n(c, mode, Len(value)),
     out |-> [i \in 1..Len(value) |-> Boolean(mode, value[i])]]

\* Integer::from_bits_le over Booleans that already exist: here every bit is
\* of the given mode except the most significant one, which is Constant.
IntegerFromBits(c, mode, value) ==
    LET w == Len(value)
    IN  [ctx |-> allocate(allocate_n(c, mode, w - 1), "Constant"),
         out |-> [i \in 1..w |-> Boolean(IF i = w THEN "Constant" ELSE mode, value[i])]]

\* eject_value of an Integer: the native bit vector.
eject_value(x) == [i \in 1..Len(x) |-> x[i].value]

\* is_constant of an Integer: every bit is Constant.
is_constant(x) == \A i \in 1..Len(x) : x[i].mode = "Constant"

\* eject_mode of an Integer: Constant if every bit is, Private if some bit
\* is, Public otherwise.
eject_mode(x) ==
    IF \A i \in 1..Len(x) : x[i].mode = "Constant" THEN "Constant"
    ELSE IF \E i \in 1..Len(x) : x[i].mode = "Private" THEN "Private"
    ELSE "Public"

\* ------------------------------------------------------------- shr_wrapped

\* count!(Integer<E, I>, ShrWrapped<Integer<E, M>, Output = Integer<E, I>>, case):
\* the Count the wrapped shift predicts for the case, kept as a named term.
ShrWrappedCount(case) ==
    [CountIs(0, 0, 0, 0) EXCEPT !.delegated = <<<<"ShrWrapped", case>>>>]

\* self.shr_wrapped(rhs): total; shifts by the amount modulo the width. A
\* Constant amount only rewires the bits of self; any other amount computes
\* Private result bits at the cost the wrapped shift predicts.
shr_wrapped(c, self, rhs, t) ==
    LET w == Len(self)
        n == AmountModWidth(eject_value(rhs), w)
        value == wrapping_shr(eject_value(self), eject_value(rhs), t.signed)
    IN  IF is_constant(self) /\ is_constant(rhs) THEN
            IntegerNew(Log(c, "shr_wrapped"), "Constant", value)
        ELSE IF is_constant(rhs) THEN
            [ctx |-> Log(c, "shr_wrapped"),
             out |-> [i \in 1..w |-> IF i + n <= w THEN self[i + n]
                                     ELSE IF t.signed THEN self[w]
                                     ELSE BooleanConstant(FALSE)]]
        ELSE
            [ctx |-> Log([c EXCEPT !.delegated =
                            Append(@, <<"ShrWrapped", <<eject_mode(self), eject_mode(rhs)>>>>)],
                         "shr_wrapped"),
             out |-> [i \in 1..w |-> Boolean("Private", value[i])]]

\* ------------------------------------------------------------- shr_checked

\* if self.is_constant() && rhs.is_constant()
IsConstantCase(self, rhs) == is_constant(self) /\ is_constant(rhs)

\* Mutant: the Constant branch falls back to the wrapped shift instead of
\* halting.
ShrConstant_Wrapping(c, self, rhs, t) ==
    LET r == IntegerNew(c, "Constant", wrapping_shr(eject_value(self), eject_value(rhs), t.signed))
    IN  [ctx |-> r.ctx, out |-> r.out, halted |-> FALSE, message |-> NoMessage]

\* The Constant branch: native checked_shr, a new Constant or halt.
ShrConstant(c, self, rhs, t) ==
    LET value == checked_shr(eject_value(self), to_u32(eject_value(rhs)), t.signed)
    IN  IF value = NoValue
        THEN [ctx |-> Log(c, "halt"), out |-> NoValue, halted |-> TRUE,
              message |-> HaltMessage("Constant shifted by constant exceeds the allowed bitwidth.", <<>>)]
        ELSE LET r == IntegerNew(c, "Constant", value)
             IN  [ctx |-> r.ctx, out |-> r.out, halted |-> FALSE, message |-> NoMessage]

\* Mutant: the index is the width itself, not its trailing zeros.
first_upper_bit_index_Bits(t) == t.bits

\* Mutant: every bit of rhs counts as an upper bit.
first_upper_bit_index_Zero(t) == 0

\* Mutant: the upper bits start one position too low.
first_upper_bit_index_OffByOne(t) == trailing_zeros(t.bits) - 1

\* Index of the first upper bit of rhs that must be zero.
first_upper_bit_index(t) == trailing_zeros(t.bits)

RECURSIVE FoldOr(_, _)
\* iter().fold(acc, |a, b| a | b): s holds the circuit, the accumulator and
\* the position of the iterator, counted from 1.
FoldOr(s, bits) ==
    IF s.next > Len(bits) THEN [ctx |-> s.ctx, out |-> s.out]
    ELSE LET r == BitOr(s.ctx, s.out, bits[s.next])
         IN  FoldOr([ctx |-> r.ctx, out |-> r.out, next |-> s.next + 1], bits)

\* Mutant: the fold is skipped when no upper bit of rhs is set.
upper_bits_are_nonzero_SkipsZero(c, rhs, t) ==
    IF \A i \in (first_upper_bit_index(t) + 1)..Len(rhs) : ~rhs[i].value
    THEN [ctx |-> c, out |-> rhs[Len(rhs)]]
    ELSE FoldOr([ctx |-> c, out |-> BooleanConstant(FALSE), next |-> first_upper_bit_index(t) + 1], rhs)

\* rhs.bits_le[first_upper_bit_index..].iter().fold(Boolean::constant(false), |a, b| a | b)
upper_bits_are_nonzero(c, rhs, t) ==
    FoldOr([ctx |-> c, out |-> BooleanConstant(FALSE), next |-> first_upper_bit_index(t) + 1], rhs)

\* Mutant: halts on any nonzero upper bits, Constant or not.
HaltsOnUpperBits_AnyMode(v) == v.value

\* Halt if upper bits of rhs are constant and nonzero.
HaltsOnUpperBits(v) == v.mode = "Constant" /\ v.value

\* E::assert_eq(v, E::zero()): a constraint unless v is a Constant, which
\* is evaluated on the spot and halts when it does not hold.
assert_eq_zero(c, v) ==
    IF v.mode = "Constant"
    THEN [ctx |-> IF v.value THEN Log(Log(c, "assert_eq"), "halt") ELSE Log(c, "assert_eq"),
          halted |-> v.value]
    ELSE [ctx |-> Log(enforce(c, ~v.value), "assert_eq"), halted |-> FALSE]

\* Mutant: the validity constraint is not issued.
EnforceUpperBitsZero_Skipped(c, v) == [ctx |-> c, halted |-> FALSE]

\* Enforce that the appropriate number of upper bits in rhs are zero.
EnforceUpperBitsZero(c, v) == assert_eq_zero(c, v)

\* Mutant: the halt on Constant upper bits is reported, and the branch goes
\* on to the validity constraint and the wrapped shift.
ShrVariable_Continues(c, self, rhs, t) ==
    LET v == upper_bits_are_nonzero(c, rhs, t)
        h == IF HaltsOnUpperBits(v.out) THEN Log(v.ctx, "halt") ELSE v.ctx
        e == EnforceUpperBitsZero(h, v.out)
        r == shr_wrapped(e.ctx, self, rhs, t)
    IN  IF HaltsOnUpperBits(v.out)
        THEN [ctx |-> r.ctx, out |-> r.out, halted |-> TRUE,
              message |-> HaltMessage("Integer shifted by constant exceeds the allowed bitwidth.", <<>>)]
        ELSE [ctx |-> r.ctx, out |-> r.out, halted |-> FALSE, message |-> NoMessage]

\* Mutant: the wrapped shift is taken before the validity constraint.
ShrVariable_WrappedFirst(c, self, rhs, t) ==
    LET v == upper_bits_are_nonzero(c, rhs, t)
    IN  IF HaltsOnUpperBits(v.out)
        THEN [ctx |-> Log(v.ctx, "halt"), out |-> NoValue, halted |-> TRUE,
              message |-> HaltMessage("Integer shifted by constant exceeds the allowed bitwidth.", <<>>)]
        ELSE LET r == shr_wrapped(v.ctx, self, rhs, t)
                 e == EnforceUpperBitsZero(r.ctx, v.out)
             IN  [ctx |-> e.ctx, out |-> r.out, halted |-> FALSE, message |-> NoMessage]

\* The branch taken when an operand is not Constant.
ShrVariable(c, self, rhs, t) ==
    LET v == upper_bits_are_nonzero(c, rhs, t)
    IN  IF HaltsOnUpperBits(v.out)
        THEN [ctx |-> Log(v.ctx, "halt"), out |-> NoValue, halted |-> TRUE,
              message |-> HaltMessage("Integer shifted by constant exceeds the allowed bitwidth.", <<>>)]
        ELSE LET e == EnforceUpperBitsZero(v.ctx, v.out)
                 r == shr_wrapped(e.ctx, self, rhs, t)
             IN  IF e.halted
                 THEN [ctx |-> e.ctx, out |-> NoValue, halted |-> TRUE,
                       message |-> HaltMessage("Constant constraint failed", <<>>)]
                 ELSE [ctx |-> r.ctx, out |-> r.out, halted |-> FALSE, message |-> NoMessage]

\* self.shr_checked(rhs)
shr_checked(c, self, rhs, t) ==
    IF IsConstantCase(self, rhs) THEN ShrConstant(c, self, rhs, t)
    ELSE ShrVariable(c, self, rhs, t)

\* ------------------------------------------------------- Shr and ShrAssign

\* Mutant: the assignment form takes the wrapped shift.
shr_assign_ref_Wrapped(c, self, rhs, t) ==
    LET r == shr_wrapped(c, self, rhs, t)
    IN  [ctx |-> r.ctx, out |-> r.out, halted |-> FALSE, message |-> NoMessage, self |-> r.out]

\* ShrAssign<&Integer<E, M>> for Integer<E, I>: *self = self.shr_checked(rhs);
\* self is the left operand after the call (a halt assigns nothing), out the
\* value assigned to it.
Assigned(self, r) ==
    [ctx |-> r.ctx, out |-> r.out, halted |-> r.halted, message |-> r.message,
     self |-> IF r.halted THEN self ELSE r.out]

shr_assign_ref(c, self, rhs, t) == Assigned(self, shr_checked(c, self, rhs, t))

\* ShrAssign<Integer<E, M>> for Integer<E, I>: *self >>= &rhs
shr_assign_owned(c, self, rhs, t) == shr_assign_ref(c, self, rhs, t)

\* Mutant: self is shifted in place, without the clone.
shr_ref_ref_InPlace(c, self, rhs, t) == shr_assign_ref(c, self, rhs, t)

\* Shr<&Integer<E, M>> for &Integer<E, I>: the clone of self is shifted in
\* place and returned; self is left as it was.
Output(self, r) ==
    [ctx |-> r.ctx, out |-> IF r.halted THEN NoValue ELSE r.self, halted |-> r.halted,
     message |-> r.message, self |-> self]

shr_ref_ref(c, self, rhs, t) ==
    LET output == self
    IN  Output(self, shr_assign_ref(c, output, rhs, t))

\* Shr<&Integer<E, M>> for Integer<E, I>: &self >> rhs
shr_owned_ref(c, self, rhs, t) == shr_ref_ref(c, self, rhs, t)

\* Shr<Integer<E, M>> for &Integer<E, I>: self >> &rhs
shr_ref_owned(c, self, rhs, t) == shr_ref_ref(c, self, rhs, t)

\* Shr<Integer<E, M>> for Integer<E, I>: self >> &rhs
shr_owned_owned(c, self, rhs, t) == shr_owned_ref(c, self, rhs, t)

\* The operand combinations of `a >> b` and of `a >>= b`.
ShrForms == {"Integer >> Integer", "&Integer >> Integer", "Integer >> &Integer", "&Integer >> &Integer"}

ShrAssignForms == {"Integer >>= Integer", "Integer >>= &Integer"}

\* `a >> b` for the given operand combination.
shr(f, c, self, rhs, t) ==
    CASE f = "Integer >> Integer"   -> shr_owned_owned(c, self, rhs, t)
      [] f = "&Integer >> Integer"  -> shr_ref_owned(c, self, rhs, t)
      [] f = "Integer >> &Integer"  -> shr_owned_ref(c, self, rhs, t)
      [] f = "&Integer >> &Integer" -> shr_ref_ref(c, self, rhs, t)

\* `a >>= b` for the given operand combination.
shr_assign(f, c, self, rhs, t) ==
    CASE f = "Integer >>= Integer"  -> shr_assign_owned(c, self, rhs, t)
      [] f = "Integer >>= &Integer" -> shr_assign_ref(c, self, rhs, t)

\* --------------------------------------------------- Metrics and OutputMode

\* Mutant: an unsupported width takes the position of the widest supported
\* width below it instead of halting.
index_Nearest(num_bits) ==
    Cardinality({i \in 1..Len(IntegerWidths) : IntegerWidths[i] < num_bits})

\* The position of num_bits in [8, 16, 32, 64, 128], or -1 for E::halt.
index(num_bits) ==
    IF \E i \in 1..Len(IntegerWidths) : IntegerWidths[i] = num_bits
    THEN (CHOOSE i \in 1..Len(IntegerWidths) : IntegerWidths[i] = num_bits) - 1
    ELSE -1

\* Subtraction of u64 operands: -1 stands for an underflow or a halt.
U64Sub(x, y) == IF x < 0 \/ y < 0 \/ x < y THEN -1 ELSE x - y

\* Mutant: one more is subtracted from each term, so that the smallest
\* overhead underflows.
OverheadCount_Underflows(t) ==
    LET private == U64Sub(U64Sub(t.mbits, 5), index(t.bits))
        constraints == U64Sub(U64Sub(t.mbits, 4), index(t.bits))
    IN  IF private < 0 \/ constraints < 0 THEN [halt |-> TRUE]
        ELSE CountIs(0, 0, private, constraints)

\* Mutant: the two overhead terms are exchanged.
OverheadCount_Swapped(t) ==
    CountIs(0, 0, U64Sub(U64Sub(t.mbits, 3), index(t.bits)), U64Sub(U64Sub(t.mbits, 4), index(t.bits)))

\* Count::is(0, 0, M::BITS - 4 - index(I::BITS), M::BITS - 3 - index(I::BITS))
OverheadCount(t) ==
    LET private == U64Sub(U64Sub(t.mbits, 4), index(t.bits))
        constraints == U64Sub(U64Sub(t.mbits, 3), index(t.bits))
    IN  IF private < 0 \/ constraints < 0 THEN NoCount
        ELSE CountIs(0, 0, private, constraints)

\* Mutant: the cost of the variable cases is written out without the
\* wrapped shift's Count.
count_Recomputed(case, t) ==
    IF case[1] = "Constant" /\ case[2] = "Constant" THEN CountIs(t.bits, 0, 0, 0)
    ELSE IF case[2] = "Constant" THEN CountIs(0, 0, 0, 0)
    ELSE OverheadCount(t)

\* Metrics::count for ShrChecked.
count(case, t) ==
    IF case[1] = "Constant" /\ case[2] = "Constant" THEN CountIs(t.bits, 0, 0, 0)
    ELSE IF case[2] = "Constant" THEN CountIs(0, 0, 0, 0)
    ELSE IF OverheadCount(t) = NoCount THEN NoCount
    ELSE CountAdd(ShrWrappedCount(case), OverheadCount(t))

\* Mutant: the output takes the left operand's Mode in every case.
output_mode_LeftMode(case) == case[1]

\* OutputMode::output_mode for ShrChecked.
output_mode(case) ==
    IF case[1] = "Constant" /\ case[2] = "Constant" THEN "Constant"
    ELSE IF case[2] = "Constant" THEN case[1]
    ELSE "Private"

\* ------------------------------------------------------ the check_shr harness

\* The sampled left operands of width w: 0, 1, -1 (all ones), MIN (the top
\* bit), -5 and 0101..01.
FirstSamples(w) ==
    { [i \in 1..w |-> FALSE],
      [i \in 1..w |-> i = 1],
      [i \in 1..w |-> TRUE],
      [i \in 1..w |-> i = w],
      [i \in 1..w |-> i # 3],
      [i \in 1..w |-> i % 2 = 1] }

\* The sampled shift amounts of a magnitude of m bits for a base of w bits:
\* the small amounts, the amounts around the width, the top bit and MAX.
SecondSamples(w, m) ==
    { NatToBits(n, m) : n \in (0..MaxSmallShift) \cup {w - 1, w, w + 1} }
        \cup { [i \in 1..m |-> i = m], [i \in 1..m |-> TRUE] }

Init ==
    /\ pc = "start"
    /\ ty \in IntegerTypes
    /\ mode_a \in Modes
    /\ mode_b \in Modes
    /\ first \in FirstSamples(ty.bits)
    /\ second \in SecondSamples(ty.bits, ty.mbits)
    /\ a = NoValue
    /\ b = NoValue
    /\ built = None
    /\ ctx = EmptyContext
    /\ scope = EmptyContext
    /\ candidate = NoValue
    /\ halted = FALSE
    /\ form = None
    /\ message = NoMessage
    /\ predicted = <<>>
    /\ inner_public = NoValue
    /\ inner_private = NoValue
    /\ constraint_system = <<>>
    /\ locals = NoValue
    /\ entries = <<>>
    /\ data = NoValue
    /\ target = NoValue

\* let a = Integer::new(mode_a, first); let b = Integer::new(mode_b, second);
New ==
    /\ pc = "start"
    /\ LET ra == IntegerNew(ctx, mode_a, first)
           rb == IntegerNew(ra.ctx, mode_b, second)
       IN  /\ a' = ra.out
           /\ b' = rb.out
           /\ ctx' = rb.ctx
    /\ built' = "new"
    /\ pc' = "built"
    /\ UNCHANGED <<inner, console, ty, mode_a, mode_b, first, second, scope, candidate, halted, form, message, predicted>>

\* A caller that assembles the shift amount from Booleans of different
\* modes: the top bit is a Constant, the other bits are of mode_b.
NewFromBits ==
    /\ pc = "start"
    /\ mode_b # "Constant"
    /\ LET ra == IntegerNew(ctx, mode_a, first)
           rb == IntegerFromBits(ra.ctx, mode_b, second)
       IN  /\ a' = ra.out
           /\ b' = rb.out
           /\ ctx' = rb.ctx
    /\ built' = "from_bits"
    /\ pc' = "built"
    /\ UNCHANGED <<inner, console, ty, mode_a, mode_b, first, second, scope, candidate, halted, form, message, predicted>>

\* match first.checked_shr(second.to_u32().unwrap()): the call runs inside
\* Circuit::scope, except when the native shift fails and the amount is a
\* Constant, where check_operation_halts makes the bare call.
InScope == ~(checked_shr(first, to_u32(second), ty.signed) = NoValue /\ mode_b = "Constant")

\* The Context in which the call of the harness starts.
Entered(c) == IF InScope THEN scope_enter(c, "Shr") ELSE c

\* The Context the call of the harness leaves behind.
Exited(c) == IF InScope THEN scope_exit(c) ELSE c

\* let candidate = a.shr_checked(&b)
ShrChecked ==
    /\ pc = "built"
    /\ LET r == shr_checked(Entered(ctx), a, b, ty)
       IN  /\ ctx' = Exited(r.ctx)
           /\ candidate' = r.out
           /\ halted' = r.halted
           /\ message' = r.message
    /\ scope' = ctx
    /\ form' = "shr_checked"
    /\ pc' = "checked"
    /\ UNCHANGED <<inner, console, ty, mode_a, mode_b, first, second, a, b, built, predicted>>

\* let candidate = a >> b, in one of the four operand combinations.
Shr ==
    /\ pc = "built"
    /\ \E f \in ShrForms :
          LET r == shr(f, Entered(ctx), a, b, ty)
          IN  /\ ctx' = Exited(r.ctx)
              /\ candidate' = r.out
              /\ halted' = r.halted
              /\ message' = r.message
              /\ a' = r.self
              /\ form' = f
    /\ scope' = ctx
    /\ pc' = "checked"
    /\ UNCHANGED <<inner, console, ty, mode_a, mode_b, first, second, b, built, predicted>>

\* a >>= b, in one of the two operand combinations.
ShrAssign ==
    /\ pc = "built"
    /\ \E f \in ShrAssignForms :
          LET r == shr_assign(f, Entered(ctx), a, b, ty)
          IN  /\ ctx' = Exited(r.ctx)
              /\ candidate' = r.out
              /\ halted' = r.halted
              /\ message' = r.message
              /\ a' = r.self
              /\ form' = f
    /\ scope' = ctx
    /\ pc' = "checked"
    /\ UNCHANGED <<inner, console, ty, mode_a, mode_b, first, second, b, built, predicted>>

\* Mutant: the check ends without Circuit::reset().
Reset_Skipped ==
    /\ pc = "checked"
    /\ pc' = "reset"
    /\ UNCHANGED <<inner, console, ty, mode_a, mode_b, first, second, a, b, built, ctx, scope, candidate,
                   halted, form, message, predicted>>

\* Circuit::reset(), which a halt that left Circuit::scope by unwinding
\* does not reach.
Reset ==
    /\ pc = "checked"
    /\ ~(halted /\ InScope)
    /\ ctx' = EmptyContext
    /\ scope' = EmptyContext
    /\ pc' = "reset"
    /\ UNCHANGED <<inner, console, ty, mode_a, mode_b, first, second, a, b, built, candidate, halted, form, message, predicted>>

\* run_test: the next check of the loop, check_shr(first, M::one()).
Half ==
    /\ pc = "reset"
    /\ second' = [i \in 1..ty.mbits |-> i = 1]
    /\ a' = NoValue
    /\ b' = NoValue
    /\ built' = None
    /\ candidate' = NoValue
    /\ halted' = FALSE
    /\ form' = None
    /\ message' = NoMessage
    /\ pc' = "start"
    /\ UNCHANGED <<inner, console, ty, mode_a, mode_b, first, ctx, scope, predicted>>

\* The harness as written: every call is a.shr_checked(&b).
Next == New \/ NewFromBits \/ ShrChecked \/ Reset \/ Half

Spec == Init /\ [][Next]_vars

\* The harness with the call written in any of its forms: the method, `>>`
\* and `>>=`, on the operands check_shr builds with Integer::new.
NextOps == New \/ ShrChecked \/ Shr \/ ShrAssign \/ Reset \/ Half

SpecOps == Init /\ [][NextOps]_vars

\* run_exhaustive_test: every (first, second) pair of the 8-bit base with
\* the 8-bit magnitude, signed and unsigned, in every mode combination.
InitSweep ==
    /\ pc = "start"
    /\ ty \in [bits : {IntegerWidths[1]}, signed : BOOLEAN, mbits : {IntegerWidths[1]}]
    /\ mode_a \in Modes
    /\ mode_b \in Modes
    /\ first \in [1..ty.bits -> BOOLEAN]
    /\ second \in [1..ty.mbits -> BOOLEAN]
    /\ a = NoValue
    /\ b = NoValue
    /\ built = None
    /\ ctx = EmptyContext
    /\ scope = EmptyContext
    /\ candidate = NoValue
    /\ halted = FALSE
    /\ form = None
    /\ message = NoMessage
    /\ predicted = <<>>
    /\ inner_public = NoValue
    /\ inner_private = NoValue
    /\ constraint_system = <<>>
    /\ locals = NoValue
    /\ entries = <<>>
    /\ data = NoValue
    /\ target = NoValue

NextSweep == New \/ ShrChecked \/ Reset

SpecSweep == InitSweep /\ [][NextSweep]_vars

\* run_test, the second check of an iteration: check_shr(first, M::one()),
\* with every value of the 8-bit base and the sampled values of the others.
InitHalf ==
    /\ pc = "start"
    /\ ty \in IntegerTypes
    /\ mode_a \in Modes
    /\ mode_b \in Modes
    /\ first \in (IF ty.bits = IntegerWidths[1] THEN [1..ty.bits -> BOOLEAN]
                  ELSE FirstSamples(ty.bits))
    /\ second = [i \in 1..ty.mbits |-> i = 1]
    /\ a = NoValue
    /\ b = NoValue
    /\ built = None
    /\ ctx = EmptyContext
    /\ scope = EmptyContext
    /\ candidate = NoValue
    /\ halted = FALSE
    /\ form = None
    /\ message = NoMessage
    /\ predicted = <<>>
    /\ inner_public = NoValue
    /\ inner_private = NoValue
    /\ constraint_system = <<>>
    /\ locals = NoValue
    /\ entries = <<>>
    /\ data = NoValue
    /\ target = NoValue

SpecHalf == InitHalf /\ [][Next]_vars

\* ------------------------------------------------ Scalar: is_greater_than

\* A Scalar: a Mode and a field-scalar value.
Scalar(mode, value) == [mode |-> mode, value |-> value]

\* Scalar::new(mode, value)
ScalarNew(c, mode, value) == [ctx |-> allocate(c, mode), out |-> Scalar(mode, value)]

\* CircuitType::from(circuit): a Constant keeps its value, Public and Private
\* keep the Mode only.
CircuitType(x) ==
    IF x.mode = "Constant" THEN [mode |-> "Constant", value |-> x.value]
    ELSE [mode |-> x.mode, value |-> None]

\* count!(Self, LessThan<Self, Output = Boolean<E>>, case): the Count the
\* canonical comparator predicts for the case, kept as a named term.
LessThan_count(case) ==
    [CountIs(0, 0, 0, 0) EXCEPT !.delegated = <<<<"LessThan", <<case[1].mode, case[2].mode>>>>>>]

\* output_type!(Self, LessThan<Self, Output = Boolean<E>>, case): the
\* comparison itself when both operands are Constant, Private otherwise.
LessThan_output_type(case) ==
    IF case[1].mode = "Constant" /\ case[2].mode = "Constant"
    THEN [mode |-> "Constant", value |-> case[1].value < case[2].value]
    ELSE [mode |-> "Private", value |-> None]

\* self.is_less_than(other): the canonical comparator, at its predicted cost.
is_less_than(c, self, other) ==
    [ctx |-> Log([c EXCEPT !.delegated = Append(@, <<"LessThan", <<self.mode, other.mode>>>>)],
                 "is_less_than"),
     out |-> Boolean(IF self.mode = "Constant" /\ other.mode = "Constant" THEN "Constant" ELSE "Private",
                     self.value < other.value)]

\* Mutant: the operands are not exchanged.
is_greater_than_Unswapped(c, self, other) == is_less_than(c, self, other)

\* self.is_greater_than(other)
is_greater_than(c, self, other) == is_less_than(c, other, self)

\* Mutant: the Count of the unswapped case.
GreaterThan_count_Unswapped(case) == LessThan_count(case)

\* Metadata::count for GreaterThan.
GreaterThan_count(case) ==
    LET left == case[1]
        right == case[2]
    IN  LessThan_count(<<right, left>>)

\* Metadata::output_type for GreaterThan.
GreaterThan_output_type(case) ==
    LET left == case[1]
        right == case[2]
    IN  LessThan_output_type(<<right, left>>)

\* The type parameters of the scalar harness: none.
NoType == [bits |-> 0, signed |-> FALSE, mbits |-> 0]

\* The sampled scalar field elements.
ScalarSamples == 0..MaxScalar

InitGT ==
    /\ pc = "start"
    /\ ty = NoType
    /\ mode_a \in Modes
    /\ mode_b \in Modes
    /\ first \in ScalarSamples
    /\ second \in ScalarSamples
    /\ a = Scalar("Constant", 0)
    /\ b = Scalar("Constant", 0)
    /\ built = None
    /\ ctx = EmptyContext
    /\ scope = EmptyContext
    /\ candidate = BooleanConstant(FALSE)
    /\ halted = FALSE
    /\ form = None
    /\ message = NoMessage
    /\ predicted = <<>>
    /\ inner_public = NoValue
    /\ inner_private = NoValue
    /\ constraint_system = <<>>
    /\ locals = NoValue
    /\ entries = <<>>
    /\ data = NoValue
    /\ target = NoValue

\* let candidate_a = Scalar::new(mode_a, expected_a); likewise candidate_b.
NewScalars ==
    /\ pc = "start"
    /\ LET ra == ScalarNew(ctx, mode_a, first)
           rb == ScalarNew(ra.ctx, mode_b, second)
       IN  /\ a' = ra.out
           /\ b' = rb.out
           /\ ctx' = rb.ctx
    /\ built' = "new"
    /\ pc' = "built"
    /\ UNCHANGED <<inner, console, ty, mode_a, mode_b, first, second, scope, candidate, halted, form, message, predicted>>

\* let candidate = candidate_a.is_greater_than(&candidate_b), inside Circuit::scope.
IsGreaterThan ==
    /\ pc = "built"
    /\ LET r == is_greater_than(scope_enter(ctx, "GreaterThan"), a, b)
       IN  /\ ctx' = scope_exit(r.ctx)
           /\ candidate' = r.out
    /\ scope' = ctx
    /\ form' = "is_greater_than"
    /\ pc' = "checked"
    /\ UNCHANGED <<inner, console, ty, mode_a, mode_b, first, second, a, b, built, halted, message, predicted>>

\* Circuit::reset()
ResetGT ==
    /\ pc = "checked"
    /\ ctx' = EmptyContext
    /\ scope' = EmptyContext
    /\ pc' = "reset"
    /\ UNCHANGED <<inner, console, ty, mode_a, mode_b, first, second, a, b, built, candidate, halted, form, message, predicted>>

\* for i in 0..ITERATIONS: the next iteration samples two new elements.
Iterate ==
    /\ pc = "reset"
    /\ first' \in ScalarSamples
    /\ second' \in ScalarSamples
    /\ a' = Scalar("Constant", 0)
    /\ b' = Scalar("Constant", 0)
    /\ built' = None
    /\ candidate' = BooleanConstant(FALSE)
    /\ form' = None
    /\ pc' = "start"
    /\ UNCHANGED <<inner, console, ty, mode_a, mode_b, ctx, scope, halted, message, predicted>>

NextGT == NewScalars \/ IsGreaterThan \/ ResetGT \/ Iterate

SpecGT == InitGT /\ [][NextGT]_vars

\* ------------------------------------------- requests to the Metrics alone

\* How many values a requesting session allocates.
MaxAllocations == 2

\* How many predictions a requesting session asks for.
MaxPredictions == 2

\* Widths that are not in the lookup of Metrics::count.
UnsupportedWidths == {4, 24, 256}

SupportedWidths == {IntegerWidths[i] : i \in 1..Len(IntegerWidths)}

RequestedWidths == SupportedWidths \cup UnsupportedWidths

\* The scalar values of the Constant operands of a requested case.
MetricsScalars == {0, MaxScalar}

\* The Case of a GreaterThan request.
MetricsScalarCase ==
    <<CircuitType(Scalar(mode_a, first)), CircuitType(Scalar(mode_b, second))>>

\* A recorded prediction.
Prediction(op, out) == [op |-> op, out |-> out]

\* Mutant: the prediction is booked on the Context as a Constant.
MetricsCount_Booked(c, case, t) == [ctx |-> allocate(c, "Constant"), out |-> count(case, t)]

\* count!(Integer<I>, ShrChecked<Integer<M>>, case), called in Context c.
MetricsCount(c, case, t) == [ctx |-> c, out |-> count(case, t)]

\* output_mode!(Integer<I>, ShrChecked<Integer<M>>, case), called in Context c.
MetricsOutputMode(c, case) == [ctx |-> c, out |-> output_mode(case)]

\* count!(Scalar, GreaterThan<Scalar>, case), called in Context c.
MetadataCount(c, case) == [ctx |-> c, out |-> GreaterThan_count(case)]

\* output_type!(Scalar, GreaterThan<Scalar>, case), called in Context c.
MetadataOutputType(c, case) == [ctx |-> c, out |-> GreaterThan_output_type(case)]

InitMetrics ==
    /\ pc = "metrics"
    /\ ty \in [bits : RequestedWidths, signed : {FALSE}, mbits : MagnitudeWidths]
    /\ mode_a \in Modes
    /\ mode_b \in Modes
    /\ first \in MetricsScalars
    /\ second \in MetricsScalars
    /\ a = NoValue
    /\ b = NoValue
    /\ built = None
    /\ ctx = EmptyContext
    /\ scope = EmptyContext
    /\ candidate = NoValue
    /\ halted = FALSE
    /\ form = None
    /\ message = NoMessage
    /\ predicted = <<>>
    /\ inner_public = NoValue
    /\ inner_private = NoValue
    /\ constraint_system = <<>>
    /\ locals = NoValue
    /\ entries = <<>>
    /\ data = NoValue
    /\ target = NoValue

\* The session allocates a value of some Mode between two requests.
Allocate ==
    /\ pc = "metrics"
    /\ ~halted
    /\ ctx.constant + ctx.public + ctx.private < MaxAllocations
    /\ \E mode \in Modes : ctx' = allocate(ctx, mode)
    /\ UNCHANGED <<pc, inner, console, ty, mode_a, mode_b, first, second, a, b, built, scope, candidate,
                   halted, form, message, predicted>>

\* count!(Integer<I>, ShrChecked<Integer<M>, Output = Integer<I>>, &(mode_a, mode_b))
RequestCount ==
    /\ pc = "metrics"
    /\ ~halted
    /\ Len(predicted) < MaxPredictions
    /\ LET r == MetricsCount(ctx, <<mode_a, mode_b>>, ty)
       IN  /\ ctx' = r.ctx
           /\ predicted' = Append(predicted, Prediction("ShrChecked::count", r.out))
           /\ halted' = (r.out = NoCount)
           /\ message' = IF r.out = NoCount
                         THEN HaltMessage("Integer of {num_bits} bits is not supported", <<ty.bits>>)
                         ELSE message
    /\ UNCHANGED <<pc, inner, console, ty, mode_a, mode_b, first, second, a, b, built, scope, candidate, form>>

\* output_mode!(Integer<I>, ShrChecked<Integer<M>, Output = Integer<I>>, &(mode_a, mode_b))
RequestOutputMode ==
    /\ pc = "metrics"
    /\ ~halted
    /\ Len(predicted) < MaxPredictions
    /\ LET r == MetricsOutputMode(ctx, <<mode_a, mode_b>>)
       IN  /\ ctx' = r.ctx
           /\ predicted' = Append(predicted, Prediction("ShrChecked::output_mode", r.out))
    /\ UNCHANGED <<pc, inner, console, ty, mode_a, mode_b, first, second, a, b, built, scope, candidate,
                   halted, form, message>>

\* count!(Scalar<Circuit>, GreaterThan<Scalar<Circuit>, Output = Boolean<Circuit>>, &case)
RequestMetadataCount ==
    /\ pc = "metrics"
    /\ ~halted
    /\ Len(predicted) < MaxPredictions
    /\ LET r == MetadataCount(ctx, MetricsScalarCase)
       IN  /\ ctx' = r.ctx
           /\ predicted' = Append(predicted, Prediction("GreaterThan::count", r.out))
    /\ UNCHANGED <<pc, inner, console, ty, mode_a, mode_b, first, second, a, b, built, scope, candidate,
                   halted, form, message>>

\* output_type!(Scalar<Circuit>, GreaterThan<Scalar<Circuit>, Output = Boolean<Circuit>>, case)
RequestMetadataOutputType ==
    /\ pc = "metrics"
    /\ ~halted
    /\ Len(predicted) < MaxPredictions
    /\ LET r == MetadataOutputType(ctx, MetricsScalarCase)
       IN  /\ ctx' = r.ctx
           /\ predicted' = Append(predicted, Prediction("GreaterThan::output_type", r.out))
    /\ UNCHANGED <<pc, inner, console, ty, mode_a, mode_b, first, second, a, b, built, scope, candidate,
                   halted, form, message>>

NextMetrics ==
    Allocate \/ RequestCount \/ RequestOutputMode \/ RequestMetadataCount \/ RequestMetadataOutputType

SpecMetrics == InitMetrics /\ [][NextMetrics]_vars

\* ------------------------------------------ the bound on the shift amount

\* The settings of the bits of a magnitude of m bits above its low byte:
\* none set, the lowest only, the highest only, all set.
HighSamples(m) ==
    IF m <= 8 THEN {[i \in 1..m |-> FALSE]}
    ELSE {[i \in 1..m |-> FALSE], [i \in 1..m |-> i = 9], [i \in 1..m |-> i = m],
          [i \in 1..m |-> i > 8]}

\* The shift amounts of a magnitude of m bits: every value of the low byte
\* under each setting of the bits above it.
AmountSamples(m) ==
    {[i \in 1..m |-> IF i <= 8 THEN lo[i] ELSE hi[i]] : lo \in [1..8 -> BOOLEAN], hi \in HighSamples(m)}

InitAmount ==
    /\ pc = "amount"
    /\ ty \in IntegerTypes
    /\ mode_a = "Constant"
    /\ mode_b \in Modes
    /\ first = [i \in 1..ty.bits |-> TRUE]
    /\ second \in AmountSamples(ty.mbits)
    /\ a = NoValue
    /\ b = NoValue
    /\ built = None
    /\ ctx = EmptyContext
    /\ scope = EmptyContext
    /\ candidate = NoValue
    /\ halted = FALSE
    /\ form = None
    /\ message = NoMessage
    /\ predicted = <<>>
    /\ inner_public = NoValue
    /\ inner_private = NoValue
    /\ constraint_system = <<>>
    /\ locals = NoValue
    /\ entries = <<>>
    /\ data = NoValue
    /\ target = NoValue

\* The non-Constant path up to the validity boolean: the fold of the upper
\* bits of rhs.
FoldUpperBits ==
    /\ pc = "amount"
    /\ LET rb == IntegerNew(ctx, mode_b, second)
           v == upper_bits_are_nonzero(rb.ctx, rb.out, ty)
       IN  /\ b' = rb.out
           /\ scope' = rb.ctx
           /\ ctx' = v.ctx
           /\ candidate' = v.out
    /\ built' = "new"
    /\ pc' = "folded"
    /\ UNCHANGED <<inner, console, ty, mode_a, mode_b, first, second, a, halted, form, message, predicted>>

\* The Constant path up to its match: the native checked_shr on the ejected
\* operands.
NativeCheckedShr ==
    /\ pc = "folded"
    /\ predicted' = <<Prediction("checked_shr", checked_shr(first, to_u32(eject_value(b)), ty.signed))>>
    /\ pc' = "native"
    /\ UNCHANGED <<inner, console, ty, mode_a, mode_b, first, second, a, b, built, ctx, scope, candidate,
                   halted, form, message>>

NextAmount == FoldUpperBits \/ NativeCheckedShr

SpecAmount == InitAmount /\ [][NextAmount]_vars

\* ---------------------------------------------------------- the inner circuit
\* InnerCircuit::generate_constraints of dpc/src/circuits/inner_circuit.rs.
\* The constraint system is the sequence of the constraints enforced so far,
\* each under its namespace <<section, record index, name>> and with whether
\* the assignment (the public and private variables) satisfies it. The
\* sections on account keys, serial numbers, the signature, the block header
\* and record encryption enforce nothing about the record fields modelled
\* here and are left out.

\* N::NUM_INPUT_RECORDS and N::NUM_OUTPUT_RECORDS.
NUM_INPUT_RECORDS == 2

NUM_OUTPUT_RECORDS == 2

\* The number of bytes of a record payload.
MaxPayloadBytes == 2

\* The number of bytes one field element holds.
FieldCapacityBytes == 31

\* An Int64 (or the u64 it was cast from): 64 bits, least significant first.
\* The low eight bits are those of n, bits 9..63 are fill, bit 64 is top.
Int64Of(n, fill, top) ==
    [i \in 1..64 |-> IF i <= 8 THEN (n \div Pow2(i - 1)) % 2 = 1 ELSE IF i < 64 THEN fill ELSE top]

\* Int64::zero()
Int64Zero == Int64Of(0, FALSE, FALSE)

\* record.value() as i64: the same 64 bits, read as two's complement.
as_i64(value) == value

\* The sum bits of a ripple-carry adder, given the carry into the first bit;
\* the carry out of the last bit is dropped. The carry into bit i is set when
\* a lower bit generates it, or the first carry is set, and every bit in
\* between propagates it.
RippleCarry(x, y, carry) ==
    LET propagates(k) == x[k] # y[k]
        generates(k) == x[k] /\ y[k]
        carry_into(i) ==
            \/ carry /\ \A k \in 1..(i - 1) : propagates(k)
            \/ \E j \in 1..(i - 1) : generates(j) /\ \A k \in (j + 1)..(i - 1) : propagates(k)
    IN  SubSeq([i \in 1..Len(x) |-> propagates(i) # carry_into(i)], 1, Len(x))

\* Int64::neg: the two's complement (the flipped bits plus one); an error
\* for i64::MIN.
Int64Neg(x) ==
    IF x[64] /\ \A j \in 1..63 : ~x[j]
    THEN [err |-> TRUE, out |-> NoValue]
    ELSE [err |-> FALSE,
          out |-> RippleCarry([i \in 1..64 |-> ~x[i]], [i \in 1..64 |-> FALSE], TRUE)]

\* Int64::add: the sum bits of a ripple-carry adder; an error when the sum
\* of two values of one sign has the other sign.
Int64Add(x, y) ==
    LET sum == RippleCarry(x, y, FALSE)
    IN  IF x[64] = y[64] /\ sum[64] # x[64]
        THEN [err |-> TRUE, out |-> NoValue]
        ELSE [err |-> FALSE, out |-> sum]

\* Int64::sub: self + (-other).
Int64Sub(x, y) ==
    LET n == Int64Neg(y)
    IN  IF n.err THEN n ELSE Int64Add(x, n.out)

\* ToBytesGadget of an integer: its bytes, least significant first.
to_bytes(bits) ==
    [k \in 1..(Len(bits) \div 8) |-> BitsToNat([j \in 1..8 |-> bits[8 * (k - 1) + j]], 8)]

\* ToConstraintFieldGadget of a byte vector: the bytes packed into field
\* elements, FieldCapacityBytes to each.
to_constraint_field(bytes) ==
    LET n == (Len(bytes) + FieldCapacityBytes - 1) \div FieldCapacityBytes
    IN  [e \in 1..n |->
            SubSeq(bytes, FieldCapacityBytes * (e - 1) + 1,
                   IF FieldCapacityBytes * e < Len(bytes) THEN FieldCapacityBytes * e ELSE Len(bytes))]

\* EqGadget::enforce_equal under the namespace ns.
enforce_equal(c, ns, x, y) == Append(c, [ns |-> ns, ok |-> x = y])

\* ConditionalEqGadget::conditional_enforce_equal: the equality is enforced
\* only when the condition is true.
conditional_enforce_equal(c, ns, x, y, condition) ==
    Append(c, [ns |-> ns, ok |-> (condition => x = y)])

\* UInt8::less_than and UInt8::less_than_or_equal.
less_than(x, y) == x < y

less_than_or_equal(x, y) == x <= y

\* usize as u8
as_u8(n) == n % 256

\* MerklePathGadget::calculate_root for a tree of two leaves: the hash of
\* the leaf and its sibling, ordered by the position of the leaf. The hash
\* of a pair is the pair.
calculate_root(path, leaf) ==
    IF path.position = 0 THEN <<leaf, path.sibling>> ELSE <<path.sibling, leaf>>

\* CRH::check_evaluation_gadget over the preimage: the hash of a message is
\* the message.
check_evaluation_gadget(preimage) == preimage

\* ConstraintSystem::is_satisfied
is_satisfied(c) == \A k \in 1..Len(c) : c[k].ok

\* The constants declared before the records are processed.
\* (0u64).to_bytes_le()
zero_value == [k \in 1..8 |-> 0]

empty_payload == [k \in 1..MaxPayloadBytes |-> 0]

noop_program_id_bytes == <<110, 0>>

zero_value_field_elements == to_constraint_field(zero_value)

empty_payload_field_elements == to_constraint_field(empty_payload)

noop_program_id_field_elements == to_constraint_field(noop_program_id_bytes)

\* The vectors generate_constraints fills while it processes the records.
EmptyLocals ==
    [input_commitments |-> <<>>, input_is_dummies |-> <<>>, input_values |-> <<>>,
     input_program_ids |-> <<>>, output_values |-> <<>>, output_program_ids |-> <<>>,
     output_commitments |-> <<>>, local_commitments_root |-> NoValue,
     candidate_value_balance |-> NoValue, message |-> NoValue]

\* --------------------------------------------------- the assignment (witness)

\* Record values: 0, 1, i64::MAX, 2^63 (i64::MIN once cast) and 2^64 - 1
\* (-1 once cast).
ValueSamples ==
    {Int64Of(0, FALSE, FALSE), Int64Of(1, FALSE, FALSE),
     Int64Of(255, TRUE, FALSE), Int64Of(0, FALSE, TRUE), Int64Of(255, TRUE, TRUE)}

PayloadSamples ==
    {[k \in 1..MaxPayloadBytes |-> 0], [k \in 1..MaxPayloadBytes |-> IF k = MaxPayloadBytes THEN 7 ELSE 0]}

executable_program_id_bytes == <<101, 0>>

ProgramIdSamples == {noop_program_id_bytes, executable_program_id_bytes, <<111, 0>>}

\* The commitment of input or output record i.
CommitmentOf(kind, i) ==
    IF kind = "input" THEN (IF i = 0 THEN "cm0" ELSE "cm1") ELSE (IF i = 0 THEN "out0" ELSE "out1")

\* Inclusion paths of a left leaf and of a right leaf.
PathSamples == [sibling : {"cm1", "cmx"}, position : {0}] \cup [sibling : {"cm0", "cmx"}, position : {1}]

\* The transition ID of a transition with the given value balance: the hash
\* of the local commitments root, the output commitments and the balance.
TransitionIdOf(local_root, outputs, balance) ==
    check_evaluation_gadget(
        <<local_root, [j \in 1..Len(outputs) |-> outputs[j].commitment]>> \o to_bytes(balance))

Assignment(ins, outs, ledger_root, ledger_paths, local_root, local_paths, n_in, n_out, id, balance) ==
    [public  |-> [program_id |-> id, transition_id |-> TransitionIdOf(local_root, outs, balance)],
     private |-> [input_records |-> ins, output_records |-> outs,
                  ledger_proof |-> [commitments_root |-> ledger_root,
                                    commitment_inclusion_proofs |-> ledger_paths],
                  local_proof |-> [local_commitments_root |-> local_root,
                                   commitment_inclusion_proofs |-> local_paths],
                  function_type |-> [input_count |-> n_in, output_count |-> n_out]]]

\* The assignments tried: around a plain transition (records that are not
\* dummies, with a payload, of the executable program, of value 0, the input
\* commitments cm0 and cm1 the leaves of the ledger tree), four families,
\* which vary
\*   - the inclusion proofs of the inputs, which of them are dummies, the
\*     ledger root and the number of inputs of the function type;
\*   - every field of one input or one output record;
\*   - the program IDs, the numbers of the function type and the executable;
\*   - the record values and the balance of the public transition ID.
Assignments ==
    LET zero == Int64Of(0, FALSE, FALSE)
        Plain(kind, i) ==
            [is_dummy |-> FALSE, value |-> zero,
             payload |-> [k \in 1..MaxPayloadBytes |-> IF k = MaxPayloadBytes THEN 7 ELSE 0],
             program_id |-> executable_program_id_bytes, commitment |-> CommitmentOf(kind, i)]
        Dummy(kind, i) ==
            [is_dummy |-> TRUE, value |-> zero, payload |-> [k \in 1..MaxPayloadBytes |-> 0],
             program_id |-> noop_program_id_bytes, commitment |-> CommitmentOf(kind, i)]
        Records(kind, i) ==
            [is_dummy : BOOLEAN, value : ValueSamples, payload : PayloadSamples,
             program_id : ProgramIdSamples, commitment : {CommitmentOf(kind, i)}]
        plain_inputs == [i \in 1..NUM_INPUT_RECORDS |-> Plain("input", i - 1)]
        plain_outputs == [j \in 1..NUM_OUTPUT_RECORDS |-> Plain("output", j - 1)]
        ledger_root == <<"cm0", "cm1">>
        local_root == <<"cmx", "cm1">>
        ledger_paths ==
            [i \in 1..NUM_INPUT_RECORDS |->
                IF i = 1 THEN [sibling |-> "cm1", position |-> 0] ELSE [sibling |-> "cm0", position |-> 1]]
        local_paths == [i \in 1..NUM_INPUT_RECORDS |-> [sibling |-> "cm0", position |-> 0]]
    IN  {Assignment([i \in 1..NUM_INPUT_RECORDS |->
                        IF d[i] THEN Dummy("input", i - 1) ELSE Plain("input", i - 1)],
                    plain_outputs, lr, lp, local_root, cp, n_in, NUM_OUTPUT_RECORDS,
                    executable_program_id_bytes, zero) :
            d \in [1..NUM_INPUT_RECORDS -> BOOLEAN], lr \in {ledger_root, <<"cm0", "cmx">>},
            n_in \in 0..NUM_INPUT_RECORDS,
            lp \in [1..NUM_INPUT_RECORDS -> PathSamples], cp \in [1..NUM_INPUT_RECORDS -> PathSamples]}
        \cup
        UNION {{Assignment([plain_inputs EXCEPT ![i] = r], plain_outputs, ledger_root, ledger_paths,
                           local_root, local_paths, NUM_INPUT_RECORDS, NUM_OUTPUT_RECORDS,
                           executable_program_id_bytes, zero) :
                    r \in Records("input", i - 1)} : i \in 1..NUM_INPUT_RECORDS}
        \cup
        UNION {{Assignment(plain_inputs, [plain_outputs EXCEPT ![j] = r], ledger_root, ledger_paths,
                           local_root, local_paths, NUM_INPUT_RECORDS, NUM_OUTPUT_RECORDS,
                           executable_program_id_bytes, zero) :
                    r \in Records("output", j - 1)} : j \in 1..NUM_OUTPUT_RECORDS}
        \cup
        {Assignment([i \in 1..NUM_INPUT_RECORDS |-> [Plain("input", i - 1) EXCEPT !.program_id = pi[i]]],
                    [j \in 1..NUM_OUTPUT_RECORDS |-> [Plain("output", j - 1) EXCEPT !.program_id = po[j]]],
                    ledger_root, ledger_paths, local_root, local_paths, n_in, n_out, id, zero) :
            pi \in [1..NUM_INPUT_RECORDS -> ProgramIdSamples],
            po \in [1..NUM_OUTPUT_RECORDS -> ProgramIdSamples],
            n_in \in 0..(NUM_INPUT_RECORDS + 1), n_out \in 0..(NUM_OUTPUT_RECORDS + 1),
            id \in {executable_program_id_bytes, noop_program_id_bytes}}
        \cup
        {Assignment([i \in 1..NUM_INPUT_RECORDS |-> [Plain("input", i - 1) EXCEPT !.value = vi[i]]],
                    [j \in 1..NUM_OUTPUT_RECORDS |-> [Plain("output", j - 1) EXCEPT !.value = vo[j]]],
                    ledger_root, ledger_paths, local_root, local_paths,
                    NUM_INPUT_RECORDS, NUM_OUTPUT_RECORDS, executable_program_id_bytes, balance) :
            vi \in [1..NUM_INPUT_RECORDS -> ValueSamples], vo \in [1..NUM_OUTPUT_RECORDS -> ValueSamples],
            balance \in {zero, Int64Of(1, FALSE, FALSE), Int64Of(255, TRUE, TRUE)}}

InitInner ==
    /\ pc = "inner"
    /\ ty = [bits |-> 64, signed |-> TRUE, mbits |-> 8]
    /\ mode_a = "Private"
    /\ mode_b = "Private"
    /\ first = NoValue
    /\ second = NoValue
    /\ a = NoValue
    /\ b = NoValue
    /\ built = None
    /\ ctx = EmptyContext
    /\ scope = EmptyContext
    /\ candidate = NoValue
    /\ halted = FALSE
    /\ form = None
    /\ message = NoMessage
    /\ predicted = <<>>
    /\ \E w \in Assignments :
            /\ inner_public = w.public
            /\ inner_private = w.private
    /\ constraint_system = <<>>
    /\ locals = EmptyLocals
    /\ entries = <<>>
    /\ data = NoValue
    /\ target = NoValue

\* ------------------------------------------------ generate_constraints, by section

\* The variables of the test harnesses, which the inner circuit leaves alone.
harness ==
    <<ty, mode_a, mode_b, first, second, a, b, built, ctx, scope, candidate, form, message, predicted>>

\* The noop safety checks of an input record: a dummy has a value of 0, an
\* empty payload and the noop program ID.
InputNoopChecks_Unconditional(c, i, given_is_dummy, value_fe, payload_fe, program_id_fe) ==
    LET c1 == enforce_equal(c, <<"Process input record", i, "value of 0">>,
                            value_fe, zero_value_field_elements)
        c2 == enforce_equal(c1, <<"Process input record", i, "empty payload">>,
                            payload_fe, empty_payload_field_elements)
    IN  enforce_equal(c2, <<"Process input record", i, "noop program ID">>,
                      program_id_fe, noop_program_id_field_elements)

InputNoopChecks(c, i, given_is_dummy, value_fe, payload_fe, program_id_fe) ==
    LET c1 == conditional_enforce_equal(c, <<"Process input record", i, "value of 0">>,
                                        value_fe, zero_value_field_elements, given_is_dummy)
        c2 == conditional_enforce_equal(c1, <<"Process input record", i, "empty payload">>,
                                        payload_fe, empty_payload_field_elements, given_is_dummy)
    IN  conditional_enforce_equal(c2, <<"Process input record", i, "noop program ID">>,
                                  program_id_fe, noop_program_id_field_elements, given_is_dummy)

\* One iteration of the loop over private.input_records; i counts from 0.
ProcessInputRecord(st, record, i) ==
    LET given_is_dummy == record.is_dummy
        given_value == as_i64(record.value)
        given_payload == record.payload
        given_program_id == record.program_id
        given_commitment == record.commitment
        given_value_bytes == to_bytes(given_value)
        given_program_id_field_elements == to_constraint_field(given_program_id)
        c1 == InputNoopChecks(st.cs, i, given_is_dummy, to_constraint_field(given_value_bytes),
                              to_constraint_field(given_payload), given_program_id_field_elements)
        \* the commitment to the record's fields, which an honest record carries
        candidate_commitment == record.commitment
        c2 == enforce_equal(c1, <<"Process input record", i, "commitments are equal">>,
                            candidate_commitment, given_commitment)
    IN  [cs |-> c2,
         locals |-> [st.locals EXCEPT !.input_program_ids = Append(@, given_program_id_field_elements),
                                      !.input_commitments = Append(@, candidate_commitment),
                                      !.input_is_dummies = Append(@, given_is_dummy),
                                      !.input_values = Append(@, given_value)]]

RECURSIVE ProcessInputRecords(_, _, _)
ProcessInputRecords(st, records, n) ==
    IF n = 0 THEN st
    ELSE ProcessInputRecord(ProcessInputRecords(st, records, n - 1), records[n], n - 1)

InputRecords ==
    /\ pc = "inner"
    /\ LET st == ProcessInputRecords([cs |-> constraint_system, locals |-> locals],
                                     inner_private.input_records, Len(inner_private.input_records))
       IN  /\ constraint_system' = st.cs
           /\ locals' = st.locals
    /\ pc' = "ledger"
    /\ UNCHANGED <<harness, console, halted, inner_public, inner_private>>

\* Boolean::or of the two inclusion tests.
is_real_commitment(is_ledger, is_local) == is_ledger \/ is_local

\* One iteration of the loop over the input commitments: the commitment is
\* in the ledger tree or in the local tree exactly when it is not a dummy.
CheckCommitmentInclusion_Dummy(c, i, commitment, is_dummy, ledger_root, local_root) ==
    LET is_ledger == calculate_root(inner_private.ledger_proof.commitment_inclusion_proofs[i + 1],
                                    commitment) = ledger_root
        is_local == calculate_root(inner_private.local_proof.commitment_inclusion_proofs[i + 1],
                                   commitment) = local_root
    IN  enforce_equal(c, <<"Check ledger proof", i, "is_real_commitment">>,
                      is_real_commitment(is_ledger, is_local), is_dummy)

CheckCommitmentInclusion(c, i, commitment, is_dummy, ledger_root, local_root) ==
    LET ledger_commitment_inclusion_proof == inner_private.ledger_proof.commitment_inclusion_proofs[i + 1]
        local_commitment_inclusion_proof == inner_private.local_proof.commitment_inclusion_proofs[i + 1]
        candidate_ledger_commitments_root == calculate_root(ledger_commitment_inclusion_proof, commitment)
        candidate_local_commitments_root == calculate_root(local_commitment_inclusion_proof, commitment)
        is_ledger == candidate_ledger_commitments_root = ledger_root
        is_local == candidate_local_commitments_root = local_root
    IN  enforce_equal(c, <<"Check ledger proof", i, "is_real_commitment">>,
                      is_real_commitment(is_ledger, is_local), ~is_dummy)

RECURSIVE CheckCommitmentInclusions(_, _, _, _, _)
\* input_commitments.iter().zip_eq(input_is_dummies.iter()).take(N::NUM_INPUT_RECORDS)
CheckCommitmentInclusions(c, l, ledger_root, local_root, n) ==
    IF n = 0 THEN c
    ELSE CheckCommitmentInclusion(CheckCommitmentInclusions(c, l, ledger_root, local_root, n - 1), n - 1,
                                  l.input_commitments[n], l.input_is_dummies[n], ledger_root, local_root)

LedgerProof ==
    /\ pc = "ledger"
    /\ LET ledger_commitments_root == inner_private.ledger_proof.commitments_root
           local_commitments_root == inner_private.local_proof.local_commitments_root
       IN  /\ constraint_system' =
                  CheckCommitmentInclusions(constraint_system, locals, ledger_commitments_root,
                                            local_commitments_root,
                                            IF Len(locals.input_commitments) < NUM_INPUT_RECORDS
                                            THEN Len(locals.input_commitments) ELSE NUM_INPUT_RECORDS)
           /\ locals' = [locals EXCEPT !.local_commitments_root = local_commitments_root]
    /\ pc' = "outputs"
    /\ UNCHANGED <<harness, console, halted, inner_public, inner_private>>

\* The noop safety checks of an output record.
OutputNoopChecks(c, j, given_is_dummy, value_fe, payload_fe, program_id_fe) ==
    LET c1 == conditional_enforce_equal(c, <<"Process output record", j, "value of 0">>,
                                        value_fe, zero_value_field_elements, given_is_dummy)
        c2 == conditional_enforce_equal(c1, <<"Process output record", j, "empty payload">>,
                                        payload_fe, empty_payload_field_elements, given_is_dummy)
    IN  conditional_enforce_equal(c2, <<"Process output record", j, "noop program ID">>,
                                  program_id_fe, noop_program_id_field_elements, given_is_dummy)

\* One iteration of the loop over private.output_records; j counts from 0.
ProcessOutputRecord(st, record, j) ==
    LET given_is_dummy == record.is_dummy
        given_value == as_i64(record.value)
        given_payload == record.payload
        given_program_id == record.program_id
        given_commitment == record.commitment
        given_value_bytes == to_bytes(given_value)
        given_program_id_field_elements == to_constraint_field(given_program_id)
        c1 == OutputNoopChecks(st.cs, j, given_is_dummy, to_constraint_field(given_value_bytes),
                               to_constraint_field(given_payload), given_program_id_field_elements)
        candidate_commitment == record.commitment
        c2 == enforce_equal(c1, <<"Process output record", j, "commitment matches">>,
                            candidate_commitment, given_commitment)
    IN  [cs |-> c2,
         locals |-> [st.locals EXCEPT !.output_program_ids = Append(@, given_program_id_field_elements),
                                      !.output_commitments = Append(@, candidate_commitment),
                                      !.output_values = Append(@, given_value)]]

RECURSIVE ProcessOutputRecords(_, _, _)
ProcessOutputRecords(st, records, n) ==
    IF n = 0 THEN st
    ELSE ProcessOutputRecord(ProcessOutputRecords(st, records, n - 1), records[n], n - 1)

OutputRecords ==
    /\ pc = "outputs"
    /\ LET st == ProcessOutputRecords([cs |-> constraint_system, locals |-> locals],
                                      inner_private.output_records, Len(inner_private.output_records))
       IN  /\ constraint_system' = st.cs
           /\ locals' = st.locals
    /\ pc' = "program"
    /\ UNCHANGED <<harness, console, halted, inner_public, inner_private>>

\* The number of inputs (outputs) of the function type is at most the
\* number of input (output) records.
CheckRecordsSize(c, name, number, number_of_records) ==
    LET is_size_correct == less_than_or_equal(number, as_u8(number_of_records))
    IN  enforce_equal(c, <<"Check that program ID is well-formed", 0, name>>, is_size_correct, TRUE)

\* One iteration of the loop over the input (output) program IDs: below the
\* number of inputs (outputs) the program ID is the executable's, from there
\* on it is the noop program ID.
CheckRecordOnExecutable_Inclusive(c, section, i, program_id_fe, executable_fe, number) ==
    LET requires_check == less_than_or_equal(as_u8(i), number)
        c1 == conditional_enforce_equal(c, <<section, i, "program ID">>,
                                        program_id_fe, executable_fe, requires_check)
    IN  conditional_enforce_equal(c1, <<section, i, "beyond">>,
                                  program_id_fe, noop_program_id_field_elements, ~requires_check)

CheckRecordOnExecutable(c, section, i, program_id_fe, executable_fe, number) ==
    LET record_index == as_u8(i)
        requires_check == less_than(record_index, number)
        c1 == conditional_enforce_equal(c, <<section, i, "program ID">>,
                                        program_id_fe, executable_fe, requires_check)
    IN  conditional_enforce_equal(c1, <<section, i, "beyond">>,
                                  program_id_fe, noop_program_id_field_elements, ~requires_check)

RECURSIVE CheckRecordsOnExecutable(_, _, _, _, _, _)
\* program_ids.iter().take(n).enumerate()
CheckRecordsOnExecutable(c, section, program_ids, executable_fe, number, n) ==
    IF n = 0 THEN c
    ELSE CheckRecordOnExecutable(
             CheckRecordsOnExecutable(c, section, program_ids, executable_fe, number, n - 1),
             section, n - 1, program_ids[n], executable_fe, number)

ProgramIds ==
    /\ pc = "program"
    /\ LET executable_program_id_field_elements == to_constraint_field(inner_public.program_id)
           number_of_inputs == inner_private.function_type.input_count
           number_of_outputs == inner_private.function_type.output_count
           c1 == CheckRecordsSize(constraint_system, "inputs size", number_of_inputs, NUM_INPUT_RECORDS)
           c2 == CheckRecordsSize(c1, "outputs size", number_of_outputs, NUM_OUTPUT_RECORDS)
           c3 == CheckRecordsOnExecutable(c2, "Check input record on executable",
                                          locals.input_program_ids, executable_program_id_field_elements,
                                          number_of_inputs,
                                          IF Len(locals.input_program_ids) < NUM_INPUT_RECORDS
                                          THEN Len(locals.input_program_ids) ELSE NUM_INPUT_RECORDS)
       IN  constraint_system' =
               CheckRecordsOnExecutable(c3, "Check output record on executable",
                                        locals.output_program_ids, executable_program_id_field_elements,
                                        number_of_outputs,
                                        IF Len(locals.output_program_ids) < NUM_OUTPUT_RECORDS
                                        THEN Len(locals.output_program_ids) ELSE NUM_OUTPUT_RECORDS)
    /\ pc' = "balance"
    /\ UNCHANGED <<harness, console, halted, inner_public, inner_private, locals>>

RECURSIVE AddInputs(_, _, _)
\* The loop over input_values: the balance after adding the first n, or the
\* error of the first addition that overflows.
AddInputs(balance, values, n) ==
    IF n = 0 THEN [err |-> FALSE, out |-> balance]
    ELSE LET before == AddInputs(balance, values, n - 1)
         IN  IF before.err THEN before ELSE Int64Add(before.out, values[n])

RECURSIVE SubOutputs(_, _, _)
\* The loop over output_values.
SubOutputs(balance, values, n) ==
    IF n = 0 THEN [err |-> FALSE, out |-> balance]
    ELSE LET before == SubOutputs(balance, values, n - 1)
         IN  IF before.err THEN before ELSE Int64Sub(before.out, values[n])

\* let candidate_value_balance = { ... }: from zero, the inputs added, then
\* the outputs subtracted.
value_balance_Swapped(input_values, output_values) ==
    LET added == AddInputs(Int64Zero, output_values, Len(output_values))
    IN  IF added.err THEN added ELSE SubOutputs(added.out, input_values, Len(input_values))

value_balance(input_values, output_values) ==
    LET added == AddInputs(Int64Zero, input_values, Len(input_values))
    IN  IF added.err THEN added ELSE SubOutputs(added.out, output_values, Len(output_values))

\* The value balance section; unwrap() of an error panics.
ValueBalance ==
    /\ pc = "balance"
    /\ LET r == value_balance(locals.input_values, locals.output_values)
       IN  IF r.err
           THEN /\ halted' = TRUE
                /\ pc' = "panicked"
                /\ UNCHANGED locals
           ELSE /\ locals' = [locals EXCEPT !.candidate_value_balance = r.out]
                /\ pc' = "transition"
                /\ UNCHANGED halted
    /\ UNCHANGED <<harness, console, inner_public, inner_private, constraint_system>>

\* The preimage of the transition ID; the value balance comes last.
TransitionMessage(l) ==
    <<l.local_commitments_root, l.output_commitments>> \o to_bytes(l.candidate_value_balance)

TransitionId ==
    /\ pc = "transition"
    /\ LET preimage == TransitionMessage(locals)
           candidate_transition_id == check_evaluation_gadget(preimage)
           given_transition_id == inner_public.transition_id
       IN  /\ locals' = [locals EXCEPT !.message = preimage]
           /\ constraint_system' =
                  enforce_equal(constraint_system, <<"Check that the transition ID is valid", 0, "valid">>,
                                candidate_transition_id, given_transition_id)
    /\ pc' = "synthesized"
    /\ UNCHANGED <<harness, console, halted, inner_public, inner_private>>

NextInner == InputRecords \/ LedgerProof \/ OutputRecords \/ ProgramIds \/ ValueBalance \/ TransitionId

SpecInner == InitInner /\ [][NextInner]_vars

\* ------------------------------------------------------------- program data
\* Data of console/program/src/data/mod.rs: a tuple struct around the vector
\* of (Identifier, Entry) pairs.

\* The longest vector of pairs tried.
MaxEntries == 3

RECURSIVE Deduplicated(_)
\* The pairs without those whose identifier occurred before.
Deduplicated(pairs) ==
    IF pairs = <<>> THEN <<>>
    ELSE LET n == Len(pairs)
             front == Deduplicated(SubSeq(pairs, 1, n - 1))
         IN  IF \E i \in 1..Len(front) : front[i][1] = pairs[n][1] THEN front
             ELSE Append(front, pairs[n])

\* impl From<Vec<(Identifier, Entry)>> for Data
from_Map(pairs) == <<Deduplicated(pairs)>>

from(pairs) == <<pairs>>

\* impl Deref for Data: &self.0
deref(self) == self[1]

InitData ==
    /\ pc = "entries"
    /\ ty = [bits |-> 8, signed |-> FALSE, mbits |-> 8]
    /\ mode_a = "Constant"
    /\ mode_b = "Constant"
    /\ first = NoValue
    /\ second = NoValue
    /\ a = NoValue
    /\ b = NoValue
    /\ built = None
    /\ ctx = EmptyContext
    /\ scope = EmptyContext
    /\ candidate = NoValue
    /\ halted = FALSE
    /\ form = None
    /\ message = NoMessage
    /\ predicted = <<>>
    /\ inner_public = NoValue
    /\ inner_private = NoValue
    /\ constraint_system = <<>>
    /\ locals = NoValue
    \* two identifiers, and entries that differ in their visibility alone
    /\ \E n \in 0..MaxEntries :
           entries \in [1..n -> {"a", "b"} \X [visibility : {"Constant", "Private"}]]
    /\ data = NoValue
    /\ target = NoValue

\* let data = Data::from(entries);
From ==
    /\ pc = "entries"
    /\ data' = from(entries)
    /\ pc' = "data"
    /\ UNCHANGED <<harness, halted, inner, entries, target>>

\* &*data
Deref ==
    /\ pc = "data"
    /\ target' = deref(data)
    /\ pc' = "deref"
    /\ UNCHANGED <<harness, halted, inner, entries, data>>

NextData == From \/ Deref

SpecData == InitData /\ [][NextData]_vars

\* ------------------------------------------------- the native oracle, restated

\* The operands were built by Integer::new, as check_shr builds them.
Checked == pc = "checked" /\ built = "new"

Case == <<mode_a, mode_b>>

ConstantCase == mode_a = "Constant" /\ mode_b = "Constant"

\* The native checked shift fails: the amount is not less than the width.
NativeFails == to_u32(second) >= ty.bits

\* The native result of an in-range shift.
NativeExpected == NativeShr(first, to_u32(second), ty.signed)

\* For the widths that fit a model-checker integer, the in-range shift is the
\* floor of the division by 2^amount.
AgreesWithDivision(result) ==
    ty.bits <= 16 =>
        BitsToInt(result, ty.signed) = BitsToInt(first, ty.signed) \div Pow2(to_u32(second))

\* The four totals of a Context or Count.
Totals(c) == <<c.constant, c.public, c.private, c.constraints>>

\* --------------------------------------------------------------------- C1
\* C1: with both operands Constant, shr_checked halts exactly when the native
\* checked_shr fails, and otherwise returns a Constant integer whose value is
\* the native result (arithmetic shift when signed, logical when unsigned).
C1_ConstantFold ==
    (Checked /\ ConstantCase) =>
        /\ halted <=> NativeFails
        /\ ~halted =>
            /\ is_constant(candidate)
            /\ eject_value(candidate) = NativeExpected
            /\ AgreesWithDivision(eject_value(candidate))

\* i8 -5 >> Constant 2 has succeeded with -2.
C1_Witness ==
    /\ Checked /\ ConstantCase /\ ~halted
    /\ ty.bits = 8 /\ ty.signed
    /\ BitsToInt(first, TRUE) = -5
    /\ to_u32(second) = 2
    /\ BitsToInt(eject_value(candidate), TRUE) = -2

\* --------------------------------------------------------------------- C2
\* C2 as stated: in every mode combination but (Constant, Constant), a shift
\* whose native check fails leaves an unsatisfiable constraint set.
C2_Original ==
    (Checked /\ ~ConstantCase /\ NativeFails) => (~halted /\ ~ctx.satisfied)

\* C2: when the native checked shift fails and the shift amount is Public or
\* Private, shr_checked returns with the validity constraint violated (the
\* circuit is unsatisfiable); when the shift amount is Constant and the left
\* operand is not, it halts instead. In no case is a satisfiable circuit left
\* that carries the wrapped result.
C2_Unsatisfiable ==
    (Checked /\ ~ConstantCase /\ NativeFails) =>
        /\ mode_b # "Constant" =>
            /\ ~halted
            /\ ~ctx.satisfied
            /\ ctx.constraints > scope.constraints
        /\ mode_b = "Constant" => (halted /\ candidate = NoValue)
        /\ ~(~halted /\ ctx.satisfied)

\* A Private amount equal to the width left an unsatisfied circuit.
C2_Witness ==
    /\ Checked /\ mode_a = "Public" /\ mode_b = "Private"
    /\ to_u32(second) = ty.bits
    /\ ~halted /\ ~ctx.satisfied /\ candidate # NoValue

\* --------------------------------------------------------------------- C3
\* C3: in every mode combination but (Constant, Constant), a shift whose
\* native check succeeds does not halt, leaves the circuit satisfied, and
\* ejects the native result.
C3_MatchesNative ==
    (Checked /\ ~ConstantCase /\ ~NativeFails) =>
        /\ ~halted
        /\ ctx.satisfied
        /\ eject_value(candidate) = NativeExpected
        /\ AgreesWithDivision(eject_value(candidate))

\* A Private i16 MIN shifted by a Public 15 gave -1.
C3_Witness ==
    /\ Checked /\ mode_a = "Private" /\ mode_b = "Public"
    /\ ty.bits = 16 /\ ty.signed
    /\ to_u32(second) = 15
    /\ BitsToInt(first, TRUE) = -32768
    /\ ~halted /\ ctx.satisfied
    /\ BitsToInt(eject_value(candidate), TRUE) = -1

\* --------------------------------------------------------------------- C4
\* C4: for operands built with new(mode, value), shr_checked halts if and
\* only if the shift amount is Constant and not less than the base width.
C4_HaltsIffConstantViolation ==
    Checked => (halted <=> (mode_b = "Constant" /\ NativeFails))

\* A Public base shifted by a Constant amount above the width has halted.
C4_Witness ==
    /\ Checked /\ mode_a = "Public" /\ mode_b = "Constant"
    /\ to_u32(second) = ty.bits + 1
    /\ halted

\* --------------------------------------------------------------------- C5
\* C5: for operands built with new, whenever shr_checked returns, the Count
\* the Context recorded inside the scope equals Metrics::count of the case.
C5_CountExact ==
    (Checked /\ ~halted) => Delta(ctx, scope) = count(Case, ty)

\* u8 >> u8, Public by Private: 4 Private variables and 5 constraints on top
\* of the wrapped shift.
C5_Witness ==
    /\ Checked /\ ~halted /\ mode_a = "Public" /\ mode_b = "Private"
    /\ ty.bits = 8 /\ ty.mbits = 8
    /\ Totals(Delta(ctx, scope)) = <<0, 0, 4, 5>>
    /\ Len(Delta(ctx, scope).delegated) = 1

\* --------------------------------------------------------------------- C6
\* C6: for operands built with new, whenever shr_checked returns, the Mode
\* of the returned integer is OutputMode::output_mode of the case.
C6_ModeExact ==
    (Checked /\ ~halted) => eject_mode(candidate) = output_mode(Case)

\* A Public base shifted by an in-range Constant amount gave a Public result.
C6_Witness ==
    /\ Checked /\ ~halted /\ mode_a = "Public" /\ mode_b = "Constant"
    /\ to_u32(second) = ty.bits - 1
    /\ eject_mode(candidate) = "Public"

\* -------------------------------------------------------------------- C10
\* C10: a call of shr_checked that halts has added no allocation and no
\* constraint to the Context, whatever the modes of the bits of the shift
\* amount.
C10_HaltBeforeEmission ==
    (pc = "checked" /\ halted) => Totals(ctx) = Totals(scope)

\* --------------------------------------------------------------------- C7
\* The scalar harness has run is_greater_than inside its scope.
Compared == pc = "checked" /\ form = "is_greater_than"

\* The case of the scalar harness: (CircuitType::from(a), CircuitType::from(b)).
ScalarCase == <<CircuitType(a), CircuitType(b)>>

\* C7: a.is_greater_than(b) returns the Boolean (value and Mode) and leaves
\* the Context that b.is_less_than(a) does from the same Context, and adds no
\* allocation or constraint besides those of that one is_less_than.
C7_DelegatesToLessThan ==
    Compared =>
        /\ candidate = is_less_than(scope, b, a).out
        /\ ctx = is_less_than(scope, b, a).ctx
        /\ Totals(Delta(ctx, scope)) = <<0, 0, 0, 0>>
        /\ Delta(ctx, scope).delegated = <<<<"LessThan", <<mode_b, mode_a>>>>>>

\* Public 4 > Constant 2 was computed as Constant 2 < Public 4.
C7_Witness ==
    /\ Compared /\ mode_a = "Public" /\ mode_b = "Constant"
    /\ first = 4 /\ second = 2
    /\ candidate = Boolean("Private", TRUE)
    /\ Delta(ctx, scope).delegated = <<<<"LessThan", <<"Constant", "Public">>>>>>

\* --------------------------------------------------------------------- C8
\* C8: for the case of the run and for the swapped case, the Count and the
\* output type predicted for GreaterThan under (left, right) are those
\* predicted for LessThan under (right, left).
C8_MetadataSwapped ==
    Compared =>
        \A case \in {ScalarCase, <<ScalarCase[2], ScalarCase[1]>>} :
            /\ GreaterThan_count(case) = LessThan_count(<<case[2], case[1]>>)
            /\ GreaterThan_output_type(case) = LessThan_output_type(<<case[2], case[1]>>)

\* Constant 1 against Constant 3: GreaterThan predicts the Constant false of
\* 3 < 1; Constant against Private: the Count of LessThan under
\* (Private, Constant).
C8_Witness ==
    /\ Compared /\ mode_a = "Constant" /\ mode_b = "Constant"
    /\ first = 1 /\ second = 3
    /\ GreaterThan_output_type(ScalarCase) = [mode |-> "Constant", value |-> FALSE]
    /\ GreaterThan_count(<<CircuitType(a), [mode |-> "Private", value |-> None]>>).delegated
           = <<<<"LessThan", <<"Private", "Constant">>>>>>

\* --------------------------------------------------------------------- C9
\* C9: the ejected value of a.is_greater_than(b) is the native a > b, and
\* the Count recorded in the scope and the type of the result are the ones
\* GreaterThan predicts for the case.
C9_GreaterThanCorrect ==
    Compared =>
        /\ candidate.value = (first > second)
        /\ Delta(ctx, scope) = GreaterThan_count(ScalarCase)
        /\ CircuitType(candidate) = GreaterThan_output_type(ScalarCase)

\* Constant 3 > Constant 1 gave the Constant true.
C9_Witness ==
    /\ Compared /\ mode_a = "Constant" /\ mode_b = "Constant"
    /\ first = 3 /\ second = 1
    /\ candidate = Boolean("Constant", TRUE)

\* -------------------------------------------------------------------- C11
\* C11: the message of every halt of the checked shift names the bit-width
\* of the base: the width is one of the values formatted into the message.
C11_MessageNamesWidth ==
    (pc = "checked" /\ halted) =>
        \E i \in 1..Len(message.args) : message.args[i] = ty.bits

\* -------------------------------------------------------------------- C12
\* C12: the predicted output Mode is the left operand's Mode when the right
\* operand is Constant (Constant for two Constants) and Private when the
\* right operand is Public or Private.
C12_OutputModeTable ==
    Checked =>
        \A l \in Modes, r \in Modes :
            output_mode(<<l, r>>) = (IF r = "Constant" THEN l ELSE "Private")

\* A Constant base shifted by a Public amount: Private is predicted, and
\* the result is Private.
C12_Witness ==
    /\ Checked /\ ~halted /\ mode_a = "Constant" /\ mode_b = "Public"
    /\ output_mode(Case) = "Private"
    /\ eject_mode(candidate) = "Private"

\* -------------------------------------------------------------------- C13
\* C13: for every case whose shift amount is not Constant, the predicted
\* Count is the wrapped shift's predicted Count for the same case plus
\* (0, 0, M::BITS - 1 - log2(I::BITS), M::BITS - log2(I::BITS)), which is the
\* overhead M::BITS - 4 - index and M::BITS - 3 - index.
C13_Compositional ==
    Checked =>
        \A l \in Modes, r \in {"Public", "Private"} :
            count(<<l, r>>, ty) =
                CountAdd(ShrWrappedCount(<<l, r>>),
                         CountIs(0, 0, ty.mbits - 1 - trailing_zeros(ty.bits),
                                 ty.mbits - trailing_zeros(ty.bits)))

\* i128 >> u8 by a Private amount: the wrapped Count plus one constraint.
C13_Witness ==
    /\ Checked /\ ~halted /\ mode_b = "Private"
    /\ ty.bits = 128 /\ ty.mbits = 8
    /\ Totals(count(Case, ty)) = <<0, 0, 0, 1>>
    /\ count(Case, ty).delegated = <<<<"ShrWrapped", Case>>>>
    /\ Delta(ctx, scope) = count(Case, ty)


\* --------------------------------------------------------------------- C14
\* The Metrics were requested for a width outside the lookup.
Unsupported == pc = "metrics" /\ ty.bits \in UnsupportedWidths

\* The recorded predictions of one kind.
PredictionsOf(op) == {i \in 1..Len(predicted) : predicted[i].op = op}

HalfOf(x, signed) ==
    [i \in 1..Len(x) |-> IF i < Len(x) THEN x[i + 1] ELSE signed /\ x[Len(x)]]

\* C15: for every width pair, base value and mode combination, shifting by
\* the native value 1 under shr_checked does not halt, leaves the circuit
\* satisfied, and ejects the native shift-right-by-1 of the base.
C15_ShiftByOne ==
    (Checked /\ to_u32(second) = 1) =>
        /\ ~halted
        /\ ctx.satisfied
        /\ eject_value(candidate) = HalfOf(first, ty.signed)
        /\ ty.bits <= 16 =>
               BitsToInt(eject_value(candidate), ty.signed) = BitsToInt(first, ty.signed) \div 2

\* The signed 8-bit base -3 (1111 1101) of mode Private is shifted by a
\* Public one: the result is -2 (1111 1110) in a satisfied circuit.
C15_Witness ==
    /\ Checked /\ to_u32(second) = 1 /\ ~halted /\ ctx.satisfied
    /\ ty.bits = 8 /\ ty.signed /\ mode_a = "Private" /\ mode_b = "Public"
    /\ BitsToInt(first, TRUE) = -3
    /\ BitsToInt(eject_value(candidate), TRUE) = -2


\* --------------------------------------------------------------------- C16
\* The left operand as the harness built it, before any assignment to it.
Built_a == IntegerNew(EmptyContext, mode_a, first).out

\* The call a.shr_checked(&b) made in the Context in which the operator
\* form was called.
Reference == shr_checked(Entered(scope), Built_a, b, ty)

\* C16: in all four operand combinations `a >> b` returns the value of
\* a.shr_checked(&b), emits the same allocations and constraints in the
\* same order and halts exactly when it does, leaving a as it was; in both
\* combinations `a >>= b` does the same and leaves a equal to that value;
\* neither reaches the wrapped shift where shr_checked does not.
C16_OperatorsAreChecked ==
    (pc = "checked" /\ form \in ShrForms \cup ShrAssignForms) =>
        LET reference == Reference
            built_a == Built_a
        IN  /\ halted = reference.halted
            /\ candidate = reference.out
            /\ message = reference.message
            /\ ctx = Exited(reference.ctx)
            /\ Delta(ctx, scope) = Delta(reference.ctx, scope)
            /\ form \in ShrForms => a = built_a
            /\ (form \in ShrAssignForms /\ ~halted) => a = reference.out
            /\ (form \in ShrAssignForms /\ halted) => a = built_a
            /\ (reference.halted /\ built = "new") <=> (NativeFails /\ mode_b = "Constant" /\ built = "new")

\* `a >>= b` with an owned b: the unsigned 8-bit 1111 1011 of mode Public,
\* shifted by the Private 2, leaves a = 0011 1110 in a satisfied circuit.
C16_Witness ==
    /\ Checked /\ form = "Integer >>= Integer" /\ ~halted /\ ctx.satisfied
    /\ ty.bits = 8 /\ ~ty.signed /\ mode_a = "Public" /\ mode_b = "Private"
    /\ BitsToNat(first, 8) = 251 /\ to_u32(second) = 2
    /\ BitsToNat(eject_value(a), 8) = 62
    /\ a = candidate

\* `a >> b` with both operands owned halts as shr_checked does: a Constant
\* amount equal to the width.
C16_WitnessHalt ==
    /\ Checked /\ form = "Integer >> Integer" /\ halted
    /\ mode_a = "Private" /\ mode_b = "Constant" /\ to_u32(second) = ty.bits
    /\ candidate = NoValue


\* --------------------------------------------------------------------- C17
\* What the call had emitted when it halted: nothing with two Constant
\* operands, the OR fold over the upper bits of the amount otherwise.
EmittedBeforeHalt ==
    IF IsConstantCase(a, b) THEN Delta(scope, scope)
    ELSE Delta(upper_bits_are_nonzero(scope, b, ty).ctx, scope)

\* The call of shr_checked halted: halt is the last event of the Context and
\* the only one of its kind, neither assert_eq nor shr_wrapped was executed,
\* nothing was emitted after the halt and no value was returned.
HaltEndsCall ==
    (pc = "checked" /\ halted) =>
        /\ candidate = NoValue
        /\ ctx.log # <<>>
        /\ ctx.log[Len(ctx.log)] = "halt"
        /\ \A i \in 1..Len(ctx.log) :
              /\ ctx.log[i] \notin {"assert_eq", "shr_wrapped"}
              /\ ctx.log[i] = "halt" => i = Len(ctx.log)
        /\ Delta(ctx, scope) = EmittedBeforeHalt

\* After a halt the only step of the session is the reset of the Context.
ResetFollowsHalt ==
    (pc = "checked" /\ halted) => (pc' = "reset" /\ ctx' = EmptyContext)

\* C17: once shr_checked calls halt, the call emits nothing further and
\* returns no value, the validity assert_eq and the shr_wrapped delegation
\* are not executed, and the session takes no construction step until the
\* Context is reset.
C17_HaltIsTerminal == []HaltEndsCall /\ [][ResetFollowsHalt]_vars

\* A Public base shifted by a Constant amount equal to the width: the call
\* halted as its only event and returned nothing.
C17_Witness ==
    /\ Checked /\ halted /\ form = "shr_checked"
    /\ mode_a = "Public" /\ mode_b = "Constant" /\ to_u32(second) = ty.bits
    /\ ctx.log = <<"halt">>
    /\ candidate = NoValue


\* --------------------------------------------------------------------- C18
\* C18: after every check run of the harness, whether the operation
\* succeeded, halted or left an unsatisfiable circuit, no scope is open any
\* more, and once reset has run every total of the Context is zero, so the
\* next build starts from an empty Context.
C18_ScopesClosedAndReset ==
    /\ (pc = "checked" /\ built = "new") => ctx.scopes = <<>>
    /\ (pc = "reset" /\ built = "new") => ctx = EmptyContext
    /\ pc = "start" => (Totals(ctx) = <<0, 0, 0, 0>> /\ ctx.scopes = <<>> /\ ctx.delegated = <<>>)

\* The run shifted a Private base by a Private amount that is out of range:
\* the circuit was left unsatisfied, and the Context is empty after reset.
C18_Witness ==
    /\ pc = "reset" /\ built = "new" /\ form = "shr_checked"
    /\ mode_a = "Private" /\ mode_b = "Private" /\ NativeFails
    /\ ~halted /\ candidate # NoValue
    /\ ctx = EmptyContext

\* The run halted on a Constant amount out of range, outside any scope, and
\* the Context is empty after reset.
C18_WitnessHalt ==
    /\ pc = "reset" /\ built = "new" /\ form = "shr_checked"
    /\ mode_b = "Constant" /\ NativeFails /\ halted
    /\ ctx = EmptyContext


\* --------------------------------------------------------------------- C19
\* Every recorded prediction of a kind is the same value.
PredictionsAgree ==
    \A i \in 1..Len(predicted), j \in 1..Len(predicted) :
        predicted[i].op = predicted[j].op => predicted[i].out = predicted[j].out

\* A request leaves every total of the Context as it was.
RequestKeepsContext ==
    (pc = "metrics" /\ ty.bits \in SupportedWidths /\ predicted' # predicted) =>
        /\ Totals(ctx') = Totals(ctx)
        /\ ctx' = ctx

\* C19: for a supported width, Metrics::count and OutputMode::output_mode of
\* the checked shift, and the Count and output type of greater-than, leave
\* the totals of the Context unchanged and return the same result for the
\* same Case on every call, whatever the Context holds at the time.
C19_MetricsArePure ==
    /\ []((pc = "metrics" /\ ty.bits \in SupportedWidths) => PredictionsAgree)
    /\ [][RequestKeepsContext]_vars

\* The Count of a 32-bit shift by a Public 8-bit amount was requested twice,
\* before and after two allocations: both requests returned the same Count,
\* and the Context holds the two allocations only.
C19_Witness ==
    /\ pc = "metrics" /\ ty.bits = 32 /\ ty.mbits = 8 /\ mode_b = "Public"
    /\ Len(predicted) = 2
    /\ predicted[1].op = "ShrChecked::count" /\ predicted[2].op = "ShrChecked::count"
    /\ predicted[1].out = predicted[2].out
    /\ Totals(predicted[1].out) = <<0, 0, 2, 3>>
    /\ ctx.constant + ctx.public + ctx.private = 2


\* --------------------------------------------------------------------- C20
\* The delta of the same call on other values: both operands zero, of the
\* same modes and widths, in an empty Context.
ZeroDelta ==
    LET ra == IntegerNew(EmptyContext, mode_a, [i \in 1..ty.bits |-> FALSE])
        rb == IntegerNew(ra.ctx, mode_b, [i \in 1..ty.mbits |-> FALSE])
        r == shr_checked(rb.ctx, ra.out, rb.out, ty)
    IN  Delta(r.ctx, rb.ctx)

\* C20: for one mode case and one pair of widths, every call of shr_checked
\* that completes adds the same (constant, public, private, constraint)
\* delta to the Context whatever the operand values, out-of-range amounts
\* that only leave the circuit unsatisfied included.
C20_CostIgnoresValues ==
    (Checked /\ ~halted) => Delta(ctx, scope) = ZeroDelta

\* A Public 16-bit base shifted by the Private 8-bit amount 255: the
\* circuit is unsatisfied, and the call added what the shift of zero by
\* zero adds, 3 Private variables and 4 constraints besides the wrapped
\* shift.
C20_Witness ==
    /\ Checked /\ ~halted /\ ~ctx.satisfied
    /\ ty.bits = 16 /\ ty.mbits = 8 /\ mode_a = "Public" /\ mode_b = "Private"
    /\ to_u32(second) = 255
    /\ Delta(ctx, scope) = ZeroDelta
    /\ Totals(ZeroDelta) = <<0, 0, 3, 4>>


\* --------------------------------------------------------------------- C21
\* A call leaves both operands as they were, except that `>>=` rebinds the
\* left operand to the result (a halt assigns nothing); the result has the
\* left operand's width.
CallKeepsOperands ==
    (pc = "built" /\ pc' = "checked") =>
        /\ b' = b
        /\ form' \in {"shr_checked"} \cup ShrForms => a' = a
        /\ form' \in ShrAssignForms => a' = (IF halted' THEN a ELSE candidate')
        /\ ~halted' => (Len(candidate') = Len(a) /\ Len(candidate') = ty.bits)

\* C21: shr_checked and `a >> b` (the borrowed form `&a >> &b` among its
\* four) leave the bits and modes of both operands unchanged; the left
\* operand changes only through `>>=`, which rebinds it to the result; the
\* result always has the left operand's bit-width.
C21_OperandsImmutable == [][CallKeepsOperands]_vars

\* `&a >> &b` on a Private 8-bit base with all bits set and a Public amount
\* of 2: the result differs from a, and a is still what was built.
C21_Witness ==
    /\ Checked /\ form = "&Integer >> &Integer" /\ ~halted
    /\ ty.bits = 8 /\ mode_a = "Private" /\ mode_b = "Public" /\ to_u32(second) = 2
    /\ \A i \in 1..8 : first[i]
    /\ a = Built_a
    /\ eject_value(a) = first
    /\ candidate # a
    /\ Len(candidate) = 8


\* --------------------------------------------------------------------- C22
\* s >= w for the amount s = 256 * hi + lo and a width w of at most 256.
AmountAtLeast(bits, w) ==
    LET lo == BitsToNat(bits, 8)
        hi == BitsToNat([i \in 1..(Len(bits) - 8) |-> bits[i + 8]], Len(bits) - 8)
    IN  hi >= 1 \/ lo >= w

\* C22: for every base width W, magnitude width and shift amount s, the OR
\* of the bits of s at index >= trailing_zeros(W) is true exactly when
\* s >= W, which is exactly when the native checked_shr fails: the Constant
\* path and the constrained path reject the same shift amounts.
C22_UpperBitsIffOutOfRange ==
    pc = "native" =>
        /\ candidate.value = AmountAtLeast(second, ty.bits)
        /\ candidate.value = (predicted[1].out = NoValue)
        /\ (mode_b = "Constant") = (candidate.mode = "Constant")
        /\ ty.mbits <= 8 => candidate.value = (BitsToNat(second, ty.mbits) >= ty.bits)

\* The 16-bit amount 64 on a 64-bit base: bit 6 is the only bit set, the
\* fold is true and the native shift fails.
C22_Witness ==
    /\ pc = "native" /\ ty.bits = 64 /\ ty.mbits = 16 /\ mode_b = "Private"
    /\ \A i \in 1..16 : second[i] = (i = 7)
    /\ candidate.value /\ candidate.mode = "Private"
    /\ predicted[1].out = NoValue


\* --------------------------------------------------------------------- C23
\* The events of the Context up to position n are all steps of the fold.
OnlyFoldBefore(n) == \A i \in 1..(n - 1) : ctx.log[i] = "or"

\* C23: on the non-Constant path the steps of shr_checked occur in the
\* order fold of the upper bits, halt check, assert_eq(validity, zero),
\* shr_wrapped: a call that halted did so right after the fold, and a call
\* that returned a value called assert_eq on the validity boolean (a
\* constraint whenever that boolean is not a Constant, which is then false)
\* before the wrapped shift, its last step.
C23_ValidityBeforeWrapped ==
    (pc = "checked" /\ form = "shr_checked" /\ ~IsConstantCase(a, b)) =>
        LET n == Len(ctx.log)
            v == upper_bits_are_nonzero(scope, b, ty)
        IN  /\ n >= 1
            /\ halted => (ctx.log[n] = "halt" /\ OnlyFoldBefore(n) /\ candidate = NoValue)
            /\ ~halted =>
                  /\ n >= 2
                  /\ ctx.log[n] = "shr_wrapped"
                  /\ ctx.log[n - 1] = "assert_eq"
                  /\ OnlyFoldBefore(n - 1)
                  /\ candidate # NoValue
                  /\ IF v.out.mode = "Constant" THEN ~v.out.value
                     ELSE /\ ctx.constraints = v.ctx.constraints + 1
                          /\ ctx.satisfied = ~v.out.value

\* A Public 32-bit base shifted by a Private 8-bit amount: two steps of the
\* fold over the bits 5, 6 and 7, the validity constraint, the wrapped
\* shift.
C23_Witness ==
    /\ Checked /\ form = "shr_checked" /\ ~halted
    /\ ty.bits = 32 /\ ty.mbits = 8 /\ mode_a = "Public" /\ mode_b = "Private"
    /\ ctx.log = <<"or", "or", "assert_eq", "shr_wrapped">>
    /\ candidate # NoValue


\* --------------------------------------------------------------------- C24
\* The bits of rhs from first_upper_bit_index on: rhs.bits_le[first_upper_bit_index..]
UpperBits == SubSeq(b, first_upper_bit_index(ty) + 1, Len(b))

\* C24: for every pair of a base width and a magnitude width,
\* trailing_zeros(I::BITS) is less than M::BITS, so the slice of the upper
\* bits of the shift amount is in bounds and holds M::BITS - log2(I::BITS)
\* bits, at least one (exactly one for a 128-bit base and 8-bit amount).
C24_UpperSliceNonEmpty ==
    pc = "folded" =>
        /\ Len(b) = ty.mbits
        /\ Pow2(first_upper_bit_index(ty)) = ty.bits
        /\ first_upper_bit_index(ty) < ty.mbits
        /\ Len(UpperBits) = ty.mbits - first_upper_bit_index(ty)
        /\ Len(UpperBits) >= 1
        /\ (ty.bits = 128 /\ ty.mbits = 8) => Len(UpperBits) = 1
        /\ mode_b # "Constant" => Len(ctx.log) = Len(UpperBits) - 1

\* A 128-bit base and a Private 8-bit amount of 128: the slice is the top
\* bit alone, which is the validity boolean without any OR.
C24_Witness ==
    /\ pc = "folded" /\ ty.bits = 128 /\ ty.mbits = 8 /\ mode_b = "Private"
    /\ to_u32(second) = 128
    /\ UpperBits = <<b[8]>>
    /\ candidate = b[8]
    /\ candidate.value
    /\ ctx.log = <<>>


\* --------------------------------------------------------------------- C25
\* C25: for every pair of a supported base width and a magnitude width the
\* overhead terms M::BITS - 4 - index(I::BITS) and M::BITS - 3 - index(I::BITS)
\* do not underflow in u64: every predicted Count is made of non-negative
\* integers, and the smallest overhead, of a 128-bit base with an 8-bit
\* amount, is 0 Private variables and 1 constraint.
C25_OverheadNeverUnderflows ==
    (pc = "metrics" /\ ty.bits \in SupportedWidths) =>
        /\ ~halted
        /\ \A i \in PredictionsOf("ShrChecked::count") :
              LET out == predicted[i].out
              IN  /\ out # NoCount
                  /\ \A k \in 1..4 : Totals(out)[k] >= 0
                  /\ mode_b # "Constant" =>
                         /\ out.private = ty.mbits - 1 - trailing_zeros(ty.bits)
                         /\ out.constraints = ty.mbits - trailing_zeros(ty.bits)
                         /\ out.constraints >= 1
                         /\ (ty.bits = 128 /\ ty.mbits = 8) => Totals(out) = <<0, 0, 0, 1>>

\* The Count of a 128-bit base shifted by a Public 8-bit amount was
\* requested: 8 - 4 - 4 = 0 Private variables and 8 - 3 - 4 = 1 constraint.
C25_Witness ==
    /\ pc = "metrics" /\ ty.bits = 128 /\ ty.mbits = 8 /\ mode_b = "Public"
    /\ ~halted
    /\ predicted # <<>>
    /\ predicted[1].op = "ShrChecked::count"
    /\ Totals(predicted[1].out) = <<0, 0, 0, 1>>


\* ------------------------------------------------------------------ C26
\* Does the assignment satisfy every constraint of the namespace?
Holds(c, ns) == \A k \in 1..Len(c) : c[k].ns = ns => c[k].ok

\* Was a constraint enforced under the namespace?
Enforced(c, ns) == \E k \in 1..Len(c) : c[k].ns = ns

\* The sections of generate_constraints after the ledger proof.
PastLedger == pc \in {"outputs", "program", "balance", "transition", "synthesized", "panicked"}

\* The commitment of input record i is the leaf at the position its ledger
\* inclusion path names, next to the sibling the path names.
InLedger(i) ==
    LET p == inner_private.ledger_proof.commitment_inclusion_proofs[i + 1]
        root == inner_private.ledger_proof.commitments_root
    IN  /\ root[p.position + 1] = inner_private.input_records[i + 1].commitment
        /\ root[2 - p.position] = p.sibling

InLocal(i) ==
    LET p == inner_private.local_proof.commitment_inclusion_proofs[i + 1]
        root == inner_private.local_proof.local_commitments_root
    IN  /\ root[p.position + 1] = inner_private.input_records[i + 1].commitment
        /\ root[2 - p.position] = p.sibling

\* C26: once the ledger proof is checked, every input record has its
\* is_real_commitment constraint, which the assignment satisfies exactly
\* when (in the ledger tree or in the local tree) equals not is_dummy; so a
\* satisfying assignment has every input commitment in the ledger, in the
\* local tree, or a dummy.
C26_RealOrDummy ==
    PastLedger =>
        \A i \in 0..(Len(inner_private.input_records) - 1) :
            LET ns == <<"Check ledger proof", i, "is_real_commitment">>
                real == InLedger(i) \/ InLocal(i)
                is_dummy == inner_private.input_records[i + 1].is_dummy
            IN  /\ Enforced(constraint_system, ns)
                /\ Holds(constraint_system, ns) <=> (real = ~is_dummy)
                /\ is_satisfied(constraint_system) => (InLedger(i) \/ InLocal(i) \/ is_dummy)

\* The ledger proof of an assignment is satisfied in which input 0 is a real
\* record found in the ledger tree only and input 1 is a dummy found in
\* neither tree.
C26_Witness ==
    /\ pc = "outputs"
    /\ is_satisfied(constraint_system)
    /\ ~inner_private.input_records[1].is_dummy /\ InLedger(0) /\ ~InLocal(0)
    /\ inner_private.input_records[2].is_dummy /\ ~InLedger(1) /\ ~InLocal(1)

\* ------------------------------------------------------------------ C27
\* The sections of generate_constraints after the program IDs.
PastProgramIds == pc \in {"balance", "transition", "synthesized", "panicked"}

\* The exact integer a signed 64-bit vector stands for, as an 80-bit two's
\* complement number in five 16-bit limbs, least significant first: sums of
\* a few 64-bit values never leave 80 bits.
Limbs(bits) ==
    LET bit(i) == IF bits[i] THEN 1 ELSE 0
        byte(o) == bit(o + 1) + 2 * bit(o + 2) + 4 * bit(o + 3) + 8 * bit(o + 4)
                       + 16 * bit(o + 5) + 32 * bit(o + 6) + 64 * bit(o + 7) + 128 * bit(o + 8)
    IN  [k \in 1..5 |-> IF k = 5 THEN (IF bits[64] THEN 65535 ELSE 0)
                        ELSE byte(16 * (k - 1)) + 256 * byte(16 * (k - 1) + 8)]

RECURSIVE LimbSum(_, _, _, _)
LimbSum(x, y, k, carry) ==
    IF k > 5 THEN <<>>
    ELSE LET s == x[k] + y[k] + carry
         IN  <<s % 65536>> \o LimbSum(x, y, k + 1, s \div 65536)

LimbAdd(x, y) == LimbSum(x, y, 1, 0)

LimbSub(x, y) == LimbSum(x, [k \in 1..5 |-> 65535 - y[k]], 1, 1)

\* The number is within the range of an i64.
FitsInt64(l) == l[5] = (IF l[4] >= 32768 THEN 65535 ELSE 0)

RECURSIVE ExactBalanceAfter(_)
\* The exact balance after n steps of the accumulation: the input record
\* values added in order, then the output record values subtracted in order.
ExactBalanceAfter(n) ==
    LET n_in == Len(inner_private.input_records)
    IN  IF n = 0 THEN [k \in 1..5 |-> 0]
        ELSE IF n <= n_in
             THEN LimbAdd(ExactBalanceAfter(n - 1), Limbs(inner_private.input_records[n].value))
             ELSE LimbSub(ExactBalanceAfter(n - 1), Limbs(inner_private.output_records[n - n_in].value))

Steps == Len(inner_private.input_records) + Len(inner_private.output_records)

\* The little-endian bytes of the low 64 bits of a number.
BytesOf(l) == [k \in 1..8 |-> IF k % 2 = 1 THEN l[(k + 1) \div 2] % 256 ELSE l[k \div 2] \div 256]

\* The last eight entries of a preimage.
BalanceBytes(preimage) == SubSeq(preimage, Len(preimage) - 7, Len(preimage))

\* The sections of generate_constraints after the value balance, and its panic.
PastBalance == pc \in {"transition", "synthesized", "panicked"}

C27_WitnessOverflow ==
    /\ pc = "panicked"
    /\ inner_private.input_records[1].value = Int64Of(255, TRUE, FALSE)
    /\ inner_private.input_records[2].value = Int64Of(1, FALSE, FALSE)
    /\ inner_private.output_records[1].value = Int64Of(1, FALSE, FALSE)
    /\ FitsInt64(ExactBalanceAfter(Steps))
    /\ ~FitsInt64(ExactBalanceAfter(2))

\* ------------------------------------------------------------------ C28
\* The rule for the record at index i (from 0) against the number of the
\* function type: the executable's program ID below it, the noop program ID
\* from there on.
ProgramIdRule(record, i, number) ==
    IF i < number THEN record.program_id = inner_public.program_id
    ELSE record.program_id = noop_program_id_bytes

\* The two program ID constraints of record i of a section hold exactly
\* when the record follows the rule.
ProgramIdChecksOf(section, record, i, number) ==
    /\ Enforced(constraint_system, <<section, i, "program ID">>)
    /\ Enforced(constraint_system, <<section, i, "beyond">>)
    /\ (Holds(constraint_system, <<section, i, "program ID">>) /\ Holds(constraint_system, <<section, i, "beyond">>))
           <=> ProgramIdRule(record, i, number)

\* C28: once the program IDs are checked, the constraints of every input
\* and output record hold exactly when the record follows the rule, and the
\* two size constraints hold exactly when the numbers of the function type
\* are at most NUM_INPUT_RECORDS and NUM_OUTPUT_RECORDS.
C28_ProgramIdRule ==
    PastProgramIds =>
        LET section == "Check that program ID is well-formed"
            number_of_inputs == inner_private.function_type.input_count
            number_of_outputs == inner_private.function_type.output_count
        IN  /\ Enforced(constraint_system, <<section, 0, "inputs size">>)
            /\ Enforced(constraint_system, <<section, 0, "outputs size">>)
            /\ Holds(constraint_system, <<section, 0, "inputs size">>) <=> (number_of_inputs <= NUM_INPUT_RECORDS)
            /\ Holds(constraint_system, <<section, 0, "outputs size">>) <=> (number_of_outputs <= NUM_OUTPUT_RECORDS)
            /\ \A i \in 1..Len(inner_private.input_records) :
                   ProgramIdChecksOf("Check input record on executable", inner_private.input_records[i],
                                     i - 1, number_of_inputs)
            /\ \A j \in 1..Len(inner_private.output_records) :
                   ProgramIdChecksOf("Check output record on executable", inner_private.output_records[j],
                                     j - 1, number_of_outputs)

\* The program IDs are checked and every constraint so far holds for a
\* function type of one input and two outputs: input 0 and both outputs
\* have the executable's program ID, input 1 has the noop program ID.
C28_Witness ==
    /\ pc = "balance"
    /\ is_satisfied(constraint_system)
    /\ inner_private.function_type = [input_count |-> 1, output_count |-> 2]
    /\ inner_public.program_id = executable_program_id_bytes
    /\ inner_private.input_records[1].program_id = executable_program_id_bytes
    /\ inner_private.input_records[2].program_id = noop_program_id_bytes
    /\ \A j \in 1..2 : inner_private.output_records[j].program_id = executable_program_id_bytes

\* A function type of more inputs than input records is reached, and the
\* assignment does not satisfy the constraints.
C28_WitnessTooMany ==
    /\ pc = "balance"
    /\ inner_private.function_type.input_count > NUM_INPUT_RECORDS
    /\ ~is_satisfied(constraint_system)

\* ------------------------------------------------------------------ C29
PastInputs == pc = "ledger" \/ PastLedger

PastOutputs == pc \in {"program", "balance", "transition", "synthesized", "panicked"}

\* A record with a value of 0, a payload of zero bytes and the noop program ID.
IsEmptyRecord(record) ==
    /\ \A k \in 1..64 : ~record.value[k]
    /\ \A k \in 1..Len(record.payload) : record.payload[k] = 0
    /\ record.program_id = noop_program_id_bytes

\* The three noop safety constraints of record i of a section hold exactly
\* when the record is not a dummy or has the field of an empty record.
NoopChecksOf(section, record, i) ==
    /\ Enforced(constraint_system, <<section, i, "value of 0">>)
    /\ Enforced(constraint_system, <<section, i, "empty payload">>)
    /\ Enforced(constraint_system, <<section, i, "noop program ID">>)
    /\ Holds(constraint_system, <<section, i, "value of 0">>)
           <=> (record.is_dummy => \A k \in 1..64 : ~record.value[k])
    /\ Holds(constraint_system, <<section, i, "empty payload">>)
           <=> (record.is_dummy => \A k \in 1..Len(record.payload) : record.payload[k] = 0)
    /\ Holds(constraint_system, <<section, i, "noop program ID">>)
           <=> (record.is_dummy => record.program_id = noop_program_id_bytes)

\* C29: once the input (output) records are processed, each has three noop
\* safety constraints; those of a dummy hold exactly when it has value 0, an
\* empty payload and the noop program ID, and those of a record that is not
\* a dummy hold whatever its fields are.
C29_DummyIsEmpty ==
    /\ PastInputs =>
           \A i \in 1..Len(inner_private.input_records) :
               NoopChecksOf("Process input record", inner_private.input_records[i], i - 1)
    /\ PastOutputs =>
           \A j \in 1..Len(inner_private.output_records) :
               NoopChecksOf("Process output record", inner_private.output_records[j], j - 1)

\* The records are processed; output 0 is a dummy and an empty record, whose
\* three constraints hold; input 0 is not a dummy, has a payload and the
\* executable's program ID, and its three constraints hold as well.
C29_Witness ==
    /\ pc = "program"
    /\ inner_private.output_records[1].is_dummy
    /\ IsEmptyRecord(inner_private.output_records[1])
    /\ ~inner_private.input_records[1].is_dummy
    /\ ~IsEmptyRecord(inner_private.input_records[1])
    /\ \A name \in {"value of 0", "empty payload", "noop program ID"} :
           /\ Holds(constraint_system, <<"Process output record", 0, name>>)
           /\ Holds(constraint_system, <<"Process input record", 0, name>>)

\* A dummy that is not an empty record is reached, and the assignment does
\* not satisfy the constraints.
C29_WitnessRejected ==
    /\ pc = "program"
    /\ \E i \in 1..Len(inner_private.input_records) :
           /\ inner_private.input_records[i].is_dummy
           /\ ~IsEmptyRecord(inner_private.input_records[i])
    /\ ~is_satisfied(constraint_system)

\* ------------------------------------------------------------------ C30
\* C30: the slice that Data::from(entries) dereferences to has the number
\* of pairs of entries and, at each index, the pair of entries at that
\* index: nothing is added, dropped, deduplicated or reordered.
C30_FromDerefIsIdentity ==
    pc = "deref" =>
        /\ Len(target) = Len(entries)
        /\ \A i \in 1..Len(entries) : target[i][1] = entries[i][1] /\ target[i][2] = entries[i][2]

\* A Data built from three pairs, with the identifier b before a and the
\* pair of b twice, is dereferenced.
C30_Witness ==
    /\ pc = "deref"
    /\ Len(entries) = 3
    /\ entries[1] = entries[3]
    /\ entries[1][1] = "b"
    /\ entries[2][1] = "a"
    /\ Len(target) = 3
====
